---- MODULE Spec2Model ----
(***************************************************************************)
(* A model of the multi-agent workflow orchestrator:                       *)
(*   - core/traffic_controller.py  TrafficController (priority admission)  *)
(*   - core/workflow.py            Workflow, WorkflowEngine.execute        *)
(*   - core/nodes/agent_node.py    AgentNode.execute (iteration counter)   *)
(*   - server.py                   check_workflow_intervention, run_workflow*)
(*                                                                         *)
(* The program runs on one asyncio event loop.  A coroutine runs without   *)
(* interruption from one suspending await to the next, so every action     *)
(* below is one such segment.  The loop's ready queue is FIFO: the         *)
(* variable `ready` holds the segments that have been scheduled            *)
(* (call_soon, create_task, a future being resolved, an I/O completion)    *)
(* and the controller's segments run in that order.                        *)
(***************************************************************************)
EXTENDS Integers, Sequences, FiniteSets, TLC

\* ------------------------------------------------------------------ bounds
NumCallers == 3          \* coroutines that may call acquire_slot
MaxCap == 2              \* largest max_concurrency the controller is built with
MaxCalls == 2            \* acquire_slot calls per caller
MaxPauseCalls == 2       \* set_pause calls
MaxToggles == 3          \* set_pause calls when two callers share one slot
MaxDispatch == 2         \* dispatch instructions handled in one execute call
MaxResumes == 1          \* execute(resume=True) calls after the first execute
MaxRaises == 1           \* exceptions raised in the loop body of one execute call
MaxReplays == 1
MaxUpdates == 2
MaxFeedbackLen == 7
MaxTaskTime == 1         \* seconds a task call can take

Callers == 1..NumCallers
NoCaller == 0

\* Priority (IntEnum): lower number = higher priority
VIP == 0
HIGH == 1
STANDARD == 2
BULK == 3
\* the priority each caller of the stand-alone controller passes
CallerPriority == <<STANDARD, STANDARD, VIP, BULK>>

VARIABLES
  \* ---- TrafficController
  max_concurrency,  \* self.max_concurrency
  semValue,         \* self.semaphore._value
  semWaiters,       \* self.semaphore._waiters: TRUE = future already resolved
  tqueue,           \* self.queue (PriorityQueue): set of QueueItem
  getters,          \* self.queue._getters: _process_next tasks blocked in queue.get()
  active_count,     \* self.active_count
  is_paused,        \* self.is_paused; _paused_event is set iff ~is_paused
  gateWaiters,      \* self._paused_event._waiters (pending futures, in order)
  now,              \* time.time() as last read (kept relative to the queued tickets)
  ready,            \* the event loop's FIFO of scheduled segments
  cst,              \* per caller: where it is in acquire_slot / release_slot
  cprio,            \* per caller: the priority argument of its acquire_slot call
  calls,            \* per caller: acquire_slot calls made so far
  pauseCalls        \* set_pause calls made so far

tvars == <<max_concurrency, semValue, semWaiters, tqueue, getters, active_count,
           is_paused, gateWaiters, now, ready, cst, cprio, calls, pauseCalls>>

VARIABLES
  \* ---- WorkflowEngine.execute, one record per call in progress
  eng,              \* locals of execute: queue, completed, outputs, the node in
                    \* hand, ..., with self.history and what the calls returned
  nodes,            \* workflow.nodes: status, output, iteration_count per node
  \* ---- server.py workflow_control_state
  interventions,    \* ["interventions"]: node id -> decision
  intervention      \* ["intervention"]: the legacy global decision

evars == <<eng, nodes, interventions, intervention>>

VARIABLES
  \* ---- providers/failover_manager.py and core/nodes/agent_node.py
  providers,        \* FailoverManager.providers: key -> ProviderHealth
  clock,            \* time.time() as the failover manager reads it
  fo,               \* locals of one execute_with_failover call
  ag                \* locals of one AgentNode.execute call, and its node

fvars == <<providers, clock, fo, ag>>

VARIABLES
  \* ---- WorkflowEngine: the shared state map and its observer
  blackboard,       \* self.blackboard: key -> value
  observed          \* the maps on_blackboard_update was called with, in order

bvars == <<blackboard, observed>>

VARIABLES
  \* ---- server.py workflow_control_state
  is_stopped,       \* ["is_stopped"]
  \* ---- a Workflow under construction (models.Workflow)
  graph,            \* .nodes (the ids, in insertion order) and .edges
  call              \* the last call on it and whether it raised

gvars == <<graph, call>>

VARIABLES
  \* ---- core/tools/tool_processor.py, one ToolProcessor and the disk
  files,            \* the absolute paths written so far
  results,          \* self.results: "files_created" and "errors"
  tag               \* the <write_file> tag handled last

xvars == <<files, results, tag>>
uvars == <<is_stopped, gvars, xvars>>

vars == <<tvars, evars, fvars, bvars, uvars>>

\* ------------------------------------------------------------ ready entries
Entry(k, c) == [k |-> k, c |-> c]

HeadIs(k, c) == ready /= <<>> /\ Head(ready) = Entry(k, c)


\* --------------------------------------------------------------- semaphore
\* asyncio.Semaphore.locked()
Locked == semValue = 0 \/ Len(semWaiters) > 0

FirstPending(ws) ==
  IF \E i \in 1..Len(ws) : ~ws[i]
  THEN CHOOSE i \in 1..Len(ws) : ~ws[i] /\ \A j \in 1..(i-1) : ws[j]
  ELSE 0

FirstDone(ws) == CHOOSE i \in 1..Len(ws) : ws[i] /\ \A j \in 1..(i-1) : ~ws[j]

RemoveAt(s, i) == [j \in 1..(Len(s)-1) |-> IF j < i THEN s[j] ELSE s[j+1]]

\* asyncio.Semaphore._wake_up_next applied to value v and waiters ws:
\* the new value, the new waiters, and whether a waiter was scheduled
WakeUpNext(v, ws) ==
  LET i == FirstPending(ws) IN
  IF i = 0 THEN [v |-> v, ws |-> ws, woke |-> FALSE]
  ELSE [v |-> v - 1, ws |-> [ws EXCEPT ![i] = TRUE], woke |-> TRUE]

\* ---------------------------------------------------------- priority queue
\* QueueItem ordering: dataclass(order=True) over (priority, timestamp)
ItemLess(a, b) == a.priority < b.priority \/ (a.priority = b.priority /\ a.timestamp < b.timestamp)

\* the items PriorityQueue.get may return (equal keys: heap order is not FIFO)
MinItems(q) == {a \in q : \A b \in q : ~ItemLess(b, a)}

\* time values only matter relative to the tickets still queued: keep ranks
Rank(v, V) == Cardinality({u \in V : u < v})
TimeBase(q, t) == {a.timestamp : a \in q} \cup {t}
Normalize(q, t) == {[a EXCEPT !.timestamp = Rank(a.timestamp, TimeBase(q, t))] : a \in q}
NormalizeNow(q, t) == Rank(t, TimeBase(q, t))

\* ------------------------------------------------------- TrafficController
\* a caller's coroutine reaches `await global_traffic_controller.acquire_slot(..)`
\* (it was resumed by an I/O completion, which schedules it at the end of ready)
CallAcquire(c, p) ==
  /\ cst[c] = "out"
  /\ cst' = [cst EXCEPT ![c] = "called"]
  /\ cprio' = [cprio EXCEPT ![c] = p]
  /\ ready' = Append(ready, Entry("acq", c))
  /\ UNCHANGED <<max_concurrency, semValue, semWaiters, tqueue, getters, active_count,
                 is_paused, gateWaiters, now>>

\* acquire_slot taking the fast path whenever the queue is empty, without
\* asking semaphore.locked()
AcquireIgnoringSemaphore(c, rdy) ==
  IF tqueue = {}
  THEN /\ semValue' = semValue - 1
       /\ active_count' = active_count + 1
       /\ cst' = [cst EXCEPT ![c] = "holding"]
       /\ ready' = rdy
       /\ UNCHANGED <<tqueue, getters, now>>
  ELSE \E t \in {now, now + 1} :
       LET item == [priority |-> cprio[c], timestamp |-> t, caller |-> c]
           q == tqueue \cup {item}
           woken == IF getters > 0 THEN <<Entry("pn_get", NoCaller)>> ELSE <<>>
       IN /\ tqueue' = Normalize(q, t)
          /\ now' = NormalizeNow(q, t)
          /\ getters' = IF getters > 0 THEN getters - 1 ELSE 0
          /\ ready' = (rdy \o woken) \o <<Entry("pn", NoCaller)>>
          /\ cst' = [cst EXCEPT ![c] = "ticket"]
          /\ UNCHANGED <<semValue, active_count>>

\* acquire_slot after the pause gate: fast path, or enqueue a ticket and
\* create the _process_next task; rdy is ready without the running segment
AcquireAfterGate(c, rdy) ==
  IF tqueue = {} /\ ~Locked
  THEN /\ semValue' = semValue - 1
       /\ active_count' = active_count + 1
       /\ cst' = [cst EXCEPT ![c] = "holding"]
       /\ ready' = rdy
       /\ UNCHANGED <<tqueue, getters, now>>
  ELSE \E t \in {now, now + 1} :
       LET item == [priority |-> cprio[c], timestamp |-> t, caller |-> c]
           q == tqueue \cup {item}
           woken == IF getters > 0 THEN <<Entry("pn_get", NoCaller)>> ELSE <<>>
       IN /\ tqueue' = Normalize(q, t)
          /\ now' = NormalizeNow(q, t)
          /\ getters' = IF getters > 0 THEN getters - 1 ELSE 0
          /\ ready' = (rdy \o woken) \o <<Entry("pn", NoCaller)>>
          /\ cst' = [cst EXCEPT ![c] = "ticket"]
          /\ UNCHANGED <<semValue, active_count>>

\* acquire_slot, first segment: `await self._paused_event.wait()` and on
acquire_slot(c) ==
  /\ HeadIs("acq", c)
  /\ IF is_paused
     THEN /\ gateWaiters' = Append(gateWaiters, Entry("gate", c))
          /\ cst' = [cst EXCEPT ![c] = "gate"]
          /\ ready' = Tail(ready)
          /\ UNCHANGED <<semValue, active_count, tqueue, getters, now>>
     ELSE /\ AcquireAfterGate(c, Tail(ready))
          /\ UNCHANGED gateWaiters
  /\ UNCHANGED <<max_concurrency, semWaiters, is_paused, cprio, calls, pauseCalls>>

\* acquire_slot resumed from _paused_event.wait(): the flag is not read again
acquire_slot_resume(c) ==
  /\ HeadIs("gate", c)
  /\ AcquireAfterGate(c, Tail(ready))
  /\ UNCHANGED <<max_concurrency, semWaiters, is_paused, gateWaiters, cprio, calls, pauseCalls>>

\* acquire_slot resumed from `await future`
acquire_slot_granted(c) ==
  /\ HeadIs("grant", c)
  /\ active_count' = active_count + 1
  /\ cst' = [cst EXCEPT ![c] = "holding"]
  /\ ready' = Tail(ready)
  /\ UNCHANGED <<max_concurrency, semValue, semWaiters, tqueue, getters, is_paused,
                 gateWaiters, now, cprio, calls, pauseCalls>>

\* the holder's coroutine reaches release_slot (resumed by an I/O completion)
CallRelease(c) ==
  /\ cst[c] = "holding"
  /\ cst' = [cst EXCEPT ![c] = "releasing"]
  /\ ready' = Append(ready, Entry("rel", c))
  /\ UNCHANGED <<max_concurrency, semValue, semWaiters, tqueue, getters, active_count,
                 is_paused, gateWaiters, now, cprio>>

\* release_slot that gives the permit back and does not trigger
\* _process_next
ReleaseWithoutDispatch(c) ==
  /\ HeadIs("rel", c)
  /\ active_count' = active_count - 1
  /\ LET w == WakeUpNext(semValue + 1, semWaiters)
         woken == IF w.woke THEN <<Entry("pn_sem", NoCaller)>> ELSE <<>>
     IN /\ semValue' = w.v
        /\ semWaiters' = w.ws
        /\ ready' = Tail(ready) \o woken
  /\ cst' = [cst EXCEPT ![c] = "out"]
  /\ UNCHANGED <<max_concurrency, tqueue, getters, is_paused, gateWaiters, now, cprio, calls, pauseCalls>>

\* release_slot: no await suspends, the whole body is one segment
release_slot(c) ==
  /\ HeadIs("rel", c)
  /\ active_count' = active_count - 1
  /\ LET w == WakeUpNext(semValue + 1, semWaiters)
         woken == IF w.woke THEN <<Entry("pn_sem", NoCaller)>> ELSE <<>>
     IN /\ semValue' = w.v
        /\ semWaiters' = w.ws
        /\ ready' = (Tail(ready) \o woken) \o <<Entry("pn", NoCaller)>>
  /\ cst' = [cst EXCEPT ![c] = "out"]
  /\ UNCHANGED <<max_concurrency, tqueue, getters, is_paused, gateWaiters, now, cprio, calls, pauseCalls>>

\* _process_next from `item = await self.queue.get()` on; the task holds a
\* permit.  Queue.get blocks on an empty queue (QueueEmpty is never raised).
ProcessGet(rdy) ==
  IF tqueue = {}
  THEN /\ getters' = getters + 1
       /\ ready' = rdy
       /\ UNCHANGED <<tqueue, now>>
  ELSE \E item \in MinItems(tqueue) :
       LET q == tqueue \ {item} IN
       /\ tqueue' = Normalize(q, now)
       /\ now' = NormalizeNow(q, now)
       /\ ready' = Append(rdy, Entry("grant", item.caller))
       /\ UNCHANGED getters

\* _process_next from `await self.semaphore.acquire()` on
ProcessAcquire(rdy) ==
  IF ~Locked
  THEN /\ semValue' = semValue - 1
       /\ UNCHANGED semWaiters
       /\ ProcessGet(rdy)
  ELSE /\ semWaiters' = Append(semWaiters, FALSE)
       /\ ready' = rdy
       /\ UNCHANGED <<semValue, tqueue, getters, now>>

\* _process_next, first segment
process_next ==
  /\ HeadIs("pn", NoCaller)
  /\ IF tqueue = {} \/ Locked
     THEN /\ ready' = Tail(ready)
          /\ UNCHANGED <<semValue, semWaiters, tqueue, getters, gateWaiters, now>>
     ELSE IF is_paused
     THEN /\ gateWaiters' = Append(gateWaiters, Entry("pn_gate", NoCaller))
          /\ ready' = Tail(ready)
          /\ UNCHANGED <<semValue, semWaiters, tqueue, getters, now>>
     ELSE /\ ProcessAcquire(Tail(ready))
          /\ UNCHANGED gateWaiters
  /\ UNCHANGED <<max_concurrency, active_count, is_paused, cst, cprio, calls, pauseCalls>>

\* _process_next resumed from _paused_event.wait()
process_next_after_gate ==
  /\ HeadIs("pn_gate", NoCaller)
  /\ ProcessAcquire(Tail(ready))
  /\ UNCHANGED <<max_concurrency, active_count, is_paused, gateWaiters, cst, cprio, calls, pauseCalls>>

\* _process_next resumed inside Semaphore.acquire: the permit was handed over
\* by _wake_up_next; the waiter leaves _waiters and passes a spare permit on
process_next_after_sem ==
  /\ HeadIs("pn_sem", NoCaller)
  /\ LET ws == RemoveAt(semWaiters, FirstDone(semWaiters))
         w == IF semValue > 0 THEN WakeUpNext(semValue, ws)
              ELSE [v |-> semValue, ws |-> ws, woke |-> FALSE]
         woken == IF w.woke THEN <<Entry("pn_sem", NoCaller)>> ELSE <<>>
     IN /\ semValue' = w.v
        /\ semWaiters' = w.ws
        /\ ProcessGet(Tail(ready) \o woken)
  /\ UNCHANGED <<max_concurrency, active_count, is_paused, gateWaiters, cst, cprio, calls, pauseCalls>>

\* _process_next resumed inside Queue.get by put_nowait: `while self.empty()`
process_next_after_get ==
  /\ HeadIs("pn_get", NoCaller)
  /\ ProcessGet(Tail(ready))
  /\ UNCHANGED <<max_concurrency, semValue, semWaiters, active_count, is_paused,
                 gateWaiters, cst, cprio, calls, pauseCalls>>

\* a pause / resume request arrives (server.py pause_system, resume_system)
CallSetPauseUpTo(b, max) ==
  /\ pauseCalls < max
  /\ pauseCalls' = pauseCalls + 1
  /\ ready' = Append(ready, Entry(IF b THEN "pause" ELSE "resume", NoCaller))
  /\ UNCHANGED <<max_concurrency, semValue, semWaiters, tqueue, getters, active_count,
                 is_paused, gateWaiters, now, cst, cprio, calls>>

CallSetPause(b) == CallSetPauseUpTo(b, MaxPauseCalls)

\* set_pause(paused)
set_pause(b) ==
  /\ HeadIs(IF b THEN "pause" ELSE "resume", NoCaller)
  /\ is_paused' = b
  /\ IF b
     THEN /\ ready' = Tail(ready)
          /\ UNCHANGED gateWaiters
     ELSE /\ ready' = (Tail(ready) \o (IF is_paused THEN gateWaiters ELSE <<>>))
                        \o <<Entry("pn", NoCaller)>>
          /\ gateWaiters' = IF is_paused THEN <<>> ELSE gateWaiters
  /\ UNCHANGED <<max_concurrency, semValue, semWaiters, tqueue, getters, active_count,
                 now, cst, cprio, calls, pauseCalls>>

\* TrafficController.__init__
TrafficInit(cap) ==
  /\ max_concurrency = cap
  /\ semValue = cap
  /\ semWaiters = <<>>
  /\ tqueue = {}
  /\ getters = 0
  /\ active_count = 0
  /\ is_paused = FALSE
  /\ gateWaiters = <<>>
  /\ now = 0
  /\ ready = <<>>
  /\ cst = [c \in Callers |-> "out"]
  /\ cprio = [c \in Callers |-> STANDARD]
  /\ calls = [c \in Callers |-> 0]
  /\ pauseCalls = 0

\* ================================================================ strings
\* A string is the sequence of its characters, so that `in` (substring) and
\* str.lower() are computed, not assumed.
s_incomplete == <<"i", "n", "c", "o", "m", "p", "l", "e", "t", "e">>
s_code_incomplete == <<"c", "o", "d", "e", "_", "i", "n", "c", "o", "m", "p", "l", "e", "t", "e">>
s_gdd_incomplete == <<"g", "d", "d", "_", "i", "n", "c", "o", "m", "p", "l", "e", "t", "e">>
s_needs_rework == <<"n", "e", "e", "d", "s", "_", "r", "e", "w", "o", "r", "k">>
s_rejected == <<"r", "e", "j", "e", "c", "t", "e", "d">>
s_failed_validation == <<"f", "a", "i", "l", "e", "d", " ", "v", "a", "l", "i", "d", "a", "t", "i", "o", "n">>
s_placeholder_detected == <<"p", "l", "a", "c", "e", "h", "o", "l", "d", "e", "r", " ", "d", "e", "t", "e", "c", "t", "e", "d">>
s_not_valid == <<"n", "o", "t", " ", "v", "a", "l", "i", "d">>
s_validated == <<"v", "a", "l", "i", "d", "a", "t", "e", "d">>
s_valid == <<"v", "a", "l", "i", "d">>
s_approved == <<"a", "p", "p", "r", "o", "v", "e", "d">>
s_complete == <<"c", "o", "m", "p", "l", "e", "t", "e">>
s_ready == <<"r", "e", "a", "d", "y">>
s_gold_standard == <<"g", "o", "l", "d", "_", "s", "t", "a", "n", "d", "a", "r", "d">>
s_acceptable == <<"a", "c", "c", "e", "p", "t", "a", "b", "l", "e">>
s_passed == <<"p", "a", "s", "s", "e", "d">>
s_billing == <<"b", "i", "l", "l", "i", "n", "g">>
s_technical == <<"t", "e", "c", "h", "n", "i", "c", "a", "l">>
t_needs_rework == <<"n", "e", "e", "d", "s", "_", "r", "e", "w", "o", "r", "k", ":", " ", "t", "i", "g", "h", "t", "e", "n", " ", "i", "t">>
t_approved == <<"A", "P", "P", "R", "O", "V", "E", "D">>
t_neutral == <<"n", "o", " ", "v", "e", "r", "d", "i", "c", "t">>
t_draft == <<"d", "r", "a", "f", "t">>
t_billing == <<"r", "o", "u", "t", "e", ":", " ", "b", "i", "l", "l", "i", "n", "g">>

Upper == <<"A","B","C","D","E","F","G","H","I","J","K","L","M","N","O","P","Q","R","S","T","U","V","W","X","Y","Z">>
LowerCase == <<"a","b","c","d","e","f","g","h","i","j","k","l","m","n","o","p","q","r","s","t","u","v","w","x","y","z">>

\* str.lower()
LowerChar(ch) ==
  IF \E i \in 1..26 : Upper[i] = ch
  THEN LowerCase[CHOOSE i \in 1..26 : Upper[i] = ch]
  ELSE ch
Lower(str) == [i \in 1..Len(str) |-> LowerChar(str[i])]

\* `needle in hay`
Contains(hay, needle) ==
  \E i \in 0..(Len(hay) - Len(needle)) :
    \A j \in 1..Len(needle) : hay[i + j] = needle[j]

\* the marker lists of the auditor routing in WorkflowEngine.execute
RejectionMarkers == {s_incomplete, s_code_incomplete, s_gdd_incomplete, s_needs_rework,
                     s_rejected, s_failed_validation, s_placeholder_detected, s_not_valid}
ApprovalMarkers == {s_validated, s_valid, s_approved, s_complete, s_ready,
                    s_gold_standard, s_acceptable, s_passed}

HasRejection(output_lower) == \E m \in RejectionMarkers : Contains(output_lower, m)
HasApproval(output_lower) == \E m \in ApprovalMarkers : Contains(output_lower, m)

\* =============================================================== workflows
None == "None"

\* node.output = None: no output text (texts are sequences of characters)
NoOutput == <<None>>

\* WorkflowEdge
Edge(s, t, fb, cond) == [source_id |-> s, target_id |-> t, feedback |-> fb, condition |-> cond]

\* what one node step returns: _execute_node's result, with the
\* <dispatch_task node=".."> targets that _process_dispatch_tags finds in it
Ok(text, dispatch) == [success |-> TRUE, output |-> text, dispatch |-> dispatch]
Failure == [success |-> FALSE, output |-> NoOutput, dispatch |-> <<>>]

\* Scenario 2 of the specification: Writer -> Critic (auditor),
\* Critic -> Writer (feedback), Critic -> Out; Writer.max_iterations = 2;
\* Critic answers "needs_rework" and then "approved".
WfLoop ==
  [order |-> <<"w", "c", "o">>,
   name |-> [w |-> "Writer", c |-> "Critic", o |-> "Out"],
   type |-> [w |-> "agent", c |-> "auditor", o |-> "output"],
   requires_approval |-> [w |-> FALSE, c |-> FALSE, o |-> FALSE],
   max_iterations |-> [w |-> 2, c |-> 2, o |-> 1],
   edges |-> <<Edge("w", "c", FALSE, None), Edge("c", "w", TRUE, None),
               Edge("c", "o", FALSE, None)>>,
   script |-> [w |-> <<{Ok(t_draft, <<>>)}>>,
               c |-> <<{Ok(t_needs_rework, <<>>)}, {Ok(t_approved, <<>>)}>>,
               o |-> <<{Ok(t_draft, <<>>)}>>]]

\* the same loop behind an input node; the writer and the critic may answer
\* anything, fail, or dispatch
WfLoopIn ==
  [order |-> <<"i", "w", "c", "o">>,
   name |-> [i |-> "In", w |-> "Writer", c |-> "Critic", o |-> "Out"],
   type |-> [i |-> "input", w |-> "agent", c |-> "auditor", o |-> "output"],
   requires_approval |-> [i |-> FALSE, w |-> FALSE, c |-> FALSE, o |-> FALSE],
   max_iterations |-> [i |-> 1, w |-> 2, c |-> 2, o |-> 1],
   edges |-> <<Edge("i", "w", FALSE, None), Edge("w", "c", FALSE, None),
               Edge("c", "w", TRUE, None), Edge("c", "o", FALSE, None)>>,
   script |-> [i |-> <<{Ok(t_draft, <<>>)}>>,
               w |-> <<{Ok(t_draft, <<>>), Ok(t_draft, <<"Writer">>), Failure}>>,
               c |-> <<{Ok(t_needs_rework, <<>>), Ok(t_approved, <<>>),
                        Ok(t_approved, <<"o">>), Ok(t_neutral, <<"ghost">>)}>>,
               o |-> <<{Ok(t_draft, <<>>)}>>]]

\* a join behind two entry nodes, gated by approval (scenario 4)
WfJoin ==
  [order |-> <<"a", "b", "g", "k">>,
   name |-> [a |-> "A", b |-> "B", g |-> "Gate", k |-> "K"],
   type |-> [a |-> "agent", b |-> "agent", g |-> "director", k |-> "output"],
   requires_approval |-> [a |-> FALSE, b |-> FALSE, g |-> TRUE, k |-> FALSE],
   max_iterations |-> [a |-> 1, b |-> 1, g |-> 1, k |-> 1],
   edges |-> <<Edge("a", "g", FALSE, None), Edge("b", "g", FALSE, None),
               Edge("g", "k", FALSE, None), Edge("a", "k", FALSE, None)>>,
   script |-> [a |-> <<{Ok(t_draft, <<>>), Failure}>>,
               b |-> <<{Ok(t_draft, <<>>), Failure}>>,
               g |-> <<{Ok(t_draft, <<>>), Failure}>>,
               k |-> <<{Ok(t_draft, <<>>)}>>]]

\* scenario 3: a router with conditioned edges
WfRouter ==
  [order |-> <<"r", "x", "y">>,
   name |-> [r |-> "Router", x |-> "Billing", y |-> "Technical"],
   type |-> [r |-> "router", x |-> "agent", y |-> "agent"],
   requires_approval |-> [r |-> FALSE, x |-> FALSE, y |-> FALSE],
   max_iterations |-> [r |-> 1, x |-> 1, y |-> 1],
   edges |-> <<Edge("r", "x", FALSE, s_billing), Edge("r", "y", FALSE, s_technical)>>,
   script |-> [r |-> <<{Ok(t_billing, <<>>)}>>,
               x |-> <<{Ok(t_draft, <<>>)}>>,
               y |-> <<{Ok(t_draft, <<>>)}>>]]

\* an auditor in front of a loop and of a second, approval-gated auditor
WfAudit ==
  [order |-> <<"a", "b", "c", "d", "e">>,
   name |-> [a |-> "Audit", b |-> "B", c |-> "C", d |-> "Sign", e |-> "E"],
   type |-> [a |-> "auditor", b |-> "agent", c |-> "agent", d |-> "auditor", e |-> "output"],
   requires_approval |-> [a |-> FALSE, b |-> FALSE, c |-> FALSE, d |-> TRUE, e |-> FALSE],
   max_iterations |-> [a |-> 1, b |-> 1, c |-> 1, d |-> 1, e |-> 1],
   edges |-> <<Edge("a", "b", FALSE, None), Edge("b", "c", FALSE, None),
               Edge("c", "b", TRUE, None), Edge("a", "d", FALSE, None),
               Edge("d", "e", FALSE, None)>>,
   script |-> [a |-> <<{Ok(t_neutral, <<>>), Ok(t_approved, <<>>)}>>,
               b |-> <<{Ok(t_draft, <<>>)}>>,
               c |-> <<{Ok(t_draft, <<>>)}>>,
               d |-> <<{Ok(t_neutral, <<>>), Ok(t_approved, <<>>)}>>,
               e |-> <<{Ok(t_draft, <<>>)}>>]]

\* scenario 1: a linear two-node pipeline
WfPipe ==
  [order |-> <<"p", "q">>,
   name |-> [p |-> "P", q |-> "Q"],
   type |-> [p |-> "agent", q |-> "output"],
   requires_approval |-> [p |-> FALSE, q |-> FALSE],
   max_iterations |-> [p |-> 1, q |-> 1],
   edges |-> <<Edge("p", "q", FALSE, None)>>,
   script |-> [p |-> <<{Ok(t_draft, <<>>), Failure}>>,
               q |-> <<{Ok(t_draft, <<>>)}>>]]

\* an entry node in front of two nodes that wait for each other: A -> B and
\* B -> A are both plain (non-feedback) edges
WfCycle ==
  [order |-> <<"s", "a", "b">>,
   name |-> [s |-> "S", a |-> "A", b |-> "B"],
   type |-> [s |-> "input", a |-> "agent", b |-> "agent"],
   requires_approval |-> [s |-> FALSE, a |-> FALSE, b |-> FALSE],
   max_iterations |-> [s |-> 1, a |-> 1, b |-> 1],
   edges |-> <<Edge("s", "a", FALSE, None), Edge("a", "b", FALSE, None),
               Edge("b", "a", FALSE, None)>>,
   script |-> [s |-> <<{Ok(t_draft, <<>>)}>>,
               a |-> <<{Ok(t_draft, <<>>)}>>,
               b |-> <<{Ok(t_draft, <<>>)}>>]]

\* two entry nodes: A may fail, and B's output carries a dispatch tag that
\* names A
WfFork ==
  [order |-> <<"a", "b">>,
   name |-> [a |-> "A", b |-> "B"],
   type |-> [a |-> "agent", b |-> "agent"],
   requires_approval |-> [a |-> FALSE, b |-> FALSE],
   max_iterations |-> [a |-> 2, b |-> 1],
   edges |-> <<>>,
   script |-> [a |-> <<{Ok(t_draft, <<>>), Failure}>>,
               b |-> <<{Ok(t_draft, <<"A">>)}>>]]

\* a script node whose agreement rule (required: contains "approved") its
\* output does not meet, in front of an output node
WfRules ==
  [order |-> <<"s", "k">>,
   name |-> [s |-> "Script", k |-> "K"],
   type |-> [s |-> "script", k |-> "output"],
   requires_approval |-> [s |-> FALSE, k |-> FALSE],
   max_iterations |-> [s |-> 1, k |-> 1],
   edges |-> <<Edge("s", "k", FALSE, None)>>,
   agreement_rules |-> [s |-> <<[type |-> "contains", value |-> s_approved,
                                 required |-> TRUE]>>,
                        k |-> <<>>],
   script |-> [s |-> <<{Ok(t_draft, <<>>), Ok(t_approved, <<>>)}>>,
               k |-> <<{Ok(t_draft, <<>>)}>>]]

\* a node with one attached sub-workflow (the pipeline above) in front of an
\* output node
WfHost ==
  [order |-> <<"h", "k">>,
   name |-> [h |-> "Host", k |-> "K"],
   type |-> [h |-> "agent", k |-> "output"],
   requires_approval |-> [h |-> FALSE, k |-> FALSE],
   max_iterations |-> [h |-> 1, k |-> 1],
   edges |-> <<Edge("h", "k", FALSE, None)>>,
   sub_workflows |-> [h |-> <<"pipe">>, k |-> <<>>],
   script |-> [h |-> <<{}>>,
               k |-> <<{Ok(t_draft, <<>>)}>>]]

\* two entry nodes, one of them gated by approval
WfGate ==
  [order |-> <<"g", "b">>,
   name |-> [g |-> "Gate", b |-> "B"],
   type |-> [g |-> "agent", b |-> "agent"],
   requires_approval |-> [g |-> TRUE, b |-> FALSE],
   max_iterations |-> [g |-> 1, b |-> 1],
   edges |-> <<>>,
   script |-> [g |-> <<{Ok(t_draft, <<>>)}>>,
               b |-> <<{Ok(t_draft, <<>>)}>>]]

Workflows == [loop |-> WfLoop, loopin |-> WfLoopIn, join |-> WfJoin,
              router |-> WfRouter, audit |-> WfAudit, pipe |-> WfPipe,
              cycle |-> WfCycle, fork |-> WfFork, rules |-> WfRules,
              host |-> WfHost, gate |-> WfGate]

\* node.sub_workflows (empty unless the workflow gives some)
SubWorkflowsOf(w, n) == IF "sub_workflows" \in DOMAIN w THEN w.sub_workflows[n] ELSE <<>>

\* node.agreement_rules (empty unless the workflow gives some)
RulesOf(w, n) == IF "agreement_rules" \in DOMAIN w THEN w.agreement_rules[n] ELSE <<>>
EngineWorkflows == {"loop", "loopin", "join", "router", "audit"}
NoWorkflow == "none"

SeqToSet(sq) == {sq[i] : i \in 1..Len(sq)}
NodeIds(w) == SeqToSet(w.order)

\* the results the executor of node n can return on its k-th execution
OutcomesOf(w, n, k) ==
  LET sc == w.script[n] IN IF k <= Len(sc) THEN sc[k] ELSE sc[Len(sc)]

\* Workflow.get_entry_nodes
get_entry_nodes(w) ==
  LET targets == {w.edges[i].target_id : i \in 1..Len(w.edges)}
  IN SelectSeq(w.order, LAMBDA nid : nid \notin targets)

\* Workflow.get_successors
get_successors(w, node_id) ==
  LET es == SelectSeq(w.edges, LAMBDA e : e.source_id = node_id)
  IN [i \in 1..Len(es) |-> es[i].target_id]

\* Workflow.get_predecessors
get_predecessors(w, node_id) ==
  LET es == SelectSeq(w.edges, LAMBDA e : e.target_id = node_id)
  IN [i \in 1..Len(es) |-> es[i].source_id]

\* required_predecessors in WorkflowEngine.execute: sources of the
\* non-feedback edges into node_id
required_predecessors(w, node_id) ==
  {w.edges[i].source_id : i \in {j \in 1..Len(w.edges) :
       w.edges[j].target_id = node_id /\ ~w.edges[j].feedback}}

\* Workflow.validate without the feedback test on the edges
all_successors(w, v) ==
  LET es == SelectSeq(w.edges, LAMBDA e : e.source_id = v)
  IN [i \in 1..Len(es) |-> es[i].target_id]

\* Workflow.validate, `successors`: the targets of v's non-feedback edges,
\* in the order of the edge list
successors(w, v) ==
  LET es == SelectSeq(w.edges, LAMBDA e : e.source_id = v /\ ~e.feedback)
  IN [i \in 1..Len(es) |-> es[i].target_id]

\* the sets `visited` and `rec_stack` of validate, and what is_cyclic returned
NoSearch == [visited |-> {}, stack |-> {}, cyclic |-> FALSE]

\* Workflow.validate, is_cyclic(v, current_stack): Visit is the function
\* body, VisitNeighbors its `for neighbor in successors` loop
RECURSIVE Visit(_, _, _)
RECURSIVE VisitNeighbors(_, _, _)
Visit(w, v, S) ==
  LET S1 == [S EXCEPT !.visited = @ \cup {v}, !.stack = @ \cup {v}]
      S2 == VisitNeighbors(w, successors(w, v), S1)
  IN IF S2.cyclic THEN S2 ELSE [S2 EXCEPT !.stack = @ \ {v}]

VisitNeighbors(w, neighbors, S) ==
  IF neighbors = <<>> THEN S
  ELSE LET neighbor == Head(neighbors) IN
    IF neighbor \notin S.visited
    THEN LET R == Visit(w, neighbor, S)
         IN IF R.cyclic THEN R ELSE VisitNeighbors(w, Tail(neighbors), R)
    ELSE IF neighbor \in S.stack THEN [S EXCEPT !.cyclic = TRUE]
    ELSE VisitNeighbors(w, Tail(neighbors), S)

\* Workflow.validate, `for node_id in self.nodes`: TRUE when the search
\* from some unvisited node returns True
RECURSIVE SearchFrom(_, _, _)
SearchFrom(w, ids, S) ==
  IF ids = <<>> THEN FALSE
  ELSE IF Head(ids) \in S.visited THEN SearchFrom(w, Tail(ids), S)
  ELSE LET R == Visit(w, Head(ids), S)
       IN IF R.cyclic THEN TRUE ELSE SearchFrom(w, Tail(ids), R)

is_cyclic(w) == SearchFrom(w, w.order, NoSearch)

\* Workflow.validate(allow_cycles): True, or ValueError("Cycle detected ..")
validate_workflow(w, allow_cycles) ==
  IF allow_cycles THEN "True"
  ELSE IF is_cyclic(w) THEN "ValueError" ELSE "True"

\* the node types NodeRegistry maps to AgentNode
AgentTypes == {"agent", "auditor", "router", "character", "director",
               "optimizer", "architect", "critic"}

\* the slot priority _execute_node asks for
PriorityOf(type) ==
  IF type \in {"director", "system"} THEN VIP
  ELSE IF type \in {"critic", "auditor"} THEN BULK
  ELSE STANDARD

\* ========================================================= WorkflowEngine
InSeq(x, sq) == \E i \in 1..Len(sq) : sq[i] = x

\* the local dict `outputs` of execute, over the node ids: NoOutput where
\* the dict has no entry
NoOutputs(w) == [n \in NodeIds(w) |-> NoOutput]

\* "Pre-load outputs from existing nodes": `if n.output: outputs[n.id] = n.output`
PreloadOutputs(w, nd) ==
  [n \in NodeIds(w) |-> IF nd[n].output /= <<>> THEN nd[n].output ELSE NoOutput]

\* the input a <dispatch_task> tag carries
dispatch_input == <<"t", "a", "s", "k">>

\* the local state execute works on: the node table, the ready queue and
\* the `completed` set
Local(nd, q, comp) == [nodes |-> nd, queue |-> q, completed |-> comp]

\* target_node = next((n for n in workflow.nodes.values()
\*                     if n.name == target_name or n.id == target_name), None)
FindNode(w, target_name) ==
  LET hits == SelectSeq(w.order, LAMBDA nid : w.name[nid] = target_name \/ nid = target_name)
  IN IF hits = <<>> THEN None ELSE Head(hits)

\* [DYNAMIC DISPATCH HANDLING]: reset the target to idle, take it out of
\* `completed`, queue it unless it is queued
RECURSIVE ApplyDispatch(_, _, _)
ApplyDispatch(w, L, targets) ==
  IF targets = <<>> THEN L
  ELSE LET t == FindNode(w, Head(targets))
           L2 == IF t = None THEN L
                 ELSE Local([L.nodes EXCEPT ![t].status = "idle"],
                            IF InSeq(t, L.queue) THEN L.queue ELSE Append(L.queue, t),
                            L.completed \ {t})
       IN ApplyDispatch(w, L2, Tail(targets))

\* whether the completed node n activates its outgoing edge e
EdgeFires(w, e, n, output_lower) ==
  IF w.type[n] = "auditor" /\ e.feedback THEN HasRejection(output_lower)
  ELSE IF w.type[n] = "auditor" /\ ~e.feedback THEN HasApproval(output_lower)
  ELSE TRUE

\* edge routing that appends the target of every firing edge, whether or
\* not it is completed or queued
RouteEveryEdge(w, L, n) ==
  LET out == L.nodes[n].output
      output_lower == IF out = NoOutput THEN <<>> ELSE Lower(out)
      Fires(i) == /\ w.edges[i].source_id = n
                  /\ EdgeFires(w, w.edges[i], n, output_lower)
      hits == SelectSeq([i \in 1..Len(w.edges) |-> i], Fires)
  IN Local(L.nodes,
           L.queue \o [k \in 1..Len(hits) |-> w.edges[hits[k]].target_id],
           L.completed)

\* "Queue successors with conditional edge routing": the loop over
\* workflow.edges.  An edge appends its target when it leaves n, the target
\* is neither completed nor queued (by the queue as it was, or by an earlier
\* edge of this loop), and the edge fires.
RouteEdges(w, L, n) ==
  LET out == L.nodes[n].output
      output_lower == IF out = NoOutput THEN <<>> ELSE Lower(out)
      Fires(i) == /\ w.edges[i].source_id = n
                  /\ w.edges[i].target_id \notin L.completed
                  /\ ~InSeq(w.edges[i].target_id, L.queue)
                  /\ EdgeFires(w, w.edges[i], n, output_lower)
      Appends(i) == /\ Fires(i)
                    /\ \A j \in 1..(i - 1) :
                         w.edges[j].target_id = w.edges[i].target_id => ~Fires(j)
      hits == SelectSeq([i \in 1..Len(w.edges) |-> i], Appends)
  IN Local(L.nodes,
           L.queue \o [k \in 1..Len(hits) |-> w.edges[hits[k]].target_id],
           L.completed)

\* the status execute gives the node after a step that returned res; the
\* AgreementValidator.validate call that follows COMPLETE only writes a log
\* line when the rules fail
StepStatus(w, n, res) ==
  IF res.success
  THEN IF w.requires_approval[n] THEN "waiting_for_approval" ELSE "complete"
  ELSE "failed"

\* the prompt execute is called with (outputs["__input__"])
initial_input == <<"p", "r", "o", "m", "p", "t">>

\* "[name]: out" as execute formats a story or predecessor entry; a missing
\* entry of `outputs` reads as ""
ContextPart(w, outs, nid) ==
  <<"[", w.name[nid], "]", ":", " ">> \o (IF outs[nid] = NoOutput THEN <<>> ELSE outs[nid])

RECURSIVE JoinParts(_)
JoinParts(parts) ==
  IF parts = <<>> THEN <<>>
  ELSE IF Len(parts) = 1 THEN parts[1]
  ELSE parts[1] \o <<"\n", "\n">> \o JoinParts(Tail(parts))

\* "Build context from predecessor outputs": the story entries of the
\* completed director, character and auditor nodes that have an output (the
\* last five of them), then one entry per edge into node_id; the prompt
\* when node_id has no edge into it
build_context(w, outs, comp, node_id) ==
  LET predecessors == get_predecessors(w, node_id)
      story == SelectSeq(w.order, LAMBDA nid :
                 /\ outs[nid] /= NoOutput
                 /\ w.type[nid] \in {"director", "character", "auditor"}
                 /\ nid \in comp)
      last5 == IF Len(story) > 5 THEN SubSeq(story, Len(story) - 4, Len(story)) ELSE story
      story_history == [i \in 1..Len(last5) |-> ContextPart(w, outs, last5[i])]
      context_parts ==
        (IF story_history = <<>> THEN <<>> ELSE <<JoinParts(story_history)>>)
          \o [i \in 1..Len(predecessors) |-> ContextPart(w, outs, predecessors[i])]
  IN IF predecessors /= <<>> THEN JoinParts(context_parts) ELSE initial_input

\* execute from the return of _execute_node to the end of the loop body
AfterStep(w, L, n, res) ==
  LET st == StepStatus(w, n, res)
      nd == [L.nodes EXCEPT ![n].status = st,
                            ![n].output = IF res.success THEN res.output ELSE @]
  IN IF st = "waiting_for_approval"
     THEN Local(nd, Append(L.queue, n), L.completed)
     ELSE LET L1 == Local(nd, L.queue, L.completed \cup {n})
              L2 == IF res.success /\ res.output /= <<>>
                    THEN ApplyDispatch(w, L1, res.dispatch) ELSE L1
          IN IF L2.nodes[n].status = "complete" THEN RouteEdges(w, L2, n) ELSE L2

\* outputs[target_node.id] = dispatch_input for every dispatch that finds
\* its target
RECURSIVE DispatchOutputs(_, _, _)
DispatchOutputs(w, outs, targets) ==
  IF targets = <<>> THEN outs
  ELSE LET t == FindNode(w, Head(targets))
       IN DispatchOutputs(w, IF t = None THEN outs ELSE [outs EXCEPT ![t] = dispatch_input],
                          Tail(targets))

\* the dict `outputs` at the end of the loop body of a step that returned res
OutputsAfterStep(w, outs, n, res) ==
  LET o1 == IF res.success THEN [outs EXCEPT ![n] = res.output] ELSE outs
  IN IF StepStatus(w, n, res) = "waiting_for_approval" THEN o1
     ELSE IF res.success /\ res.output /= <<>>
          THEN DispatchOutputs(w, o1, res.dispatch) ELSE o1

\* the dict `outputs` at the end of the loop body after an exception
OutputsAfterRaise(w, outs, res) ==
  IF res.success /\ res.output /= <<>> THEN DispatchOutputs(w, outs, res.dispatch) ELSE outs

\* "[TIME-TRAVEL] Capture Snapshot"
ExecutionSnapshot(h, n, bb, outs) ==
  [step_index |-> Len(h), node_id |-> n, blackboard |-> bb, outputs |-> outs]

\* execute from `except Exception` to the end of the loop body: the node is
\* FAILED, and the dispatch handling reads the variable `result`, whatever
\* step assigned it
AfterRaise(w, L, n, res) ==
  LET nd == [L.nodes EXCEPT ![n].status = "failed"]
      L1 == Local(nd, L.queue, L.completed \cup {n})
      L2 == IF res.success /\ res.output /= <<>>
            THEN ApplyDispatch(w, L1, res.dispatch) ELSE L1
  IN IF L2.nodes[n].status = "complete" THEN RouteEdges(w, L2, n) ELSE L2

\* the APPROVE branch: "Queue successors"
RECURSIVE QueueSuccessors(_, _, _)
QueueSuccessors(q, comp, succs) ==
  IF succs = <<>> THEN q
  ELSE QueueSuccessors(IF Head(succs) \notin comp /\ ~InSeq(Head(succs), q)
                       THEN Append(q, Head(succs)) ELSE q,
                       comp, Tail(succs))

\* server.py check_workflow_intervention(node_id): the decision returned
Decision(node_id) ==
  IF node_id \in DOMAIN interventions /\ interventions[node_id] /= None
  THEN interventions[node_id]
  ELSE intervention

\* "Check for recycling (looping)": the node table after the check, or the
\* table unchanged when the node is skipped
Recycles(w, nd, n) ==
  nd[n].status = "complete" /\ nd[n].iteration_count < w.max_iterations[n]
MaxedOut(w, nd, n) ==
  nd[n].status = "complete" /\ ~(nd[n].iteration_count < w.max_iterations[n])

\* the predecessor check of execute
PredecessorsComplete(w, comp, n) == required_predecessors(w, n) \subseteq comp

\* ------------------------------------------------------------ engine state
Statuses == {"idle", "queued", "running", "complete", "failed", "skipped",
             "waiting_for_approval", "paused"}

\* WorkflowNode defaults
NewNode == [status |-> "idle", output |-> NoOutput, iteration_count |-> 0, execs |-> 0,
            events |-> <<>>]

\* update_status: on_node_status is called with the node's id and a status;
\* .events is what the callback has received for the node so far
Emitted(nd, n, status) == [nd EXCEPT ![n].events = Append(@, status)]

\* the local variable `result` of execute before its first assignment
Unbound == [success |-> FALSE, output |-> <<"unbound">>, dispatch |-> <<>>]

NotStarted == [wf |-> NoWorkflow, pc |-> "idle", resume |-> FALSE, queue |-> <<>>,
               completed |-> {}, cur |-> None, result |-> Unbound,
               dispatched |-> 0, resumes |-> 0, raises |-> 0,
               outputs |-> <<>>, history |-> <<>>, returned |-> <<>>, replays |-> 0,
               status_then |-> <<>>]

WfOf(r) == Workflows[eng[r].wf]
LocalOf(r) == Local(nodes[r], eng[r].queue, eng[r].completed)

ApprovalNodes ==
  UNION {{n \in NodeIds(Workflows[k]) : Workflows[k].requires_approval[n]} :
         k \in DOMAIN Workflows}

Decisions == {"APPROVE", "REJECT", "OTHER"}

\* execute(workflow, initial_input, resume=False) up to the `while queue`:
\* every node reset, the queue seeded with the entry nodes
Start(r, wn) ==
  /\ eng[r].pc = "idle"
  /\ LET w == Workflows[wn] IN
     /\ nodes' = [nodes EXCEPT ![r] = [n \in NodeIds(w) |-> NewNode]]
     /\ eng' = [eng EXCEPT ![r] = [NotStarted EXCEPT !.wf = wn, !.pc = "loop",
                                                     !.queue = get_entry_nodes(w),
                                                     !.outputs = NoOutputs(w)]]
  /\ UNCHANGED <<tvars, calls, pauseCalls, interventions, intervention>>

\* server.py run_workflow for a request with every node idle and resume
\* unset: the workflow is built, validate is called with allow_cycles=True,
\* and execute is awaited; a ValueError would end the request with HTTP 500
run_workflow(r, wn) ==
  IF validate_workflow(Workflows[wn], TRUE) = "True"
  THEN Start(r, wn)
  ELSE eng[r].pc = "idle" /\ UNCHANGED <<tvars, evars>>

\* all orders in which a Python set can be iterated
Orderings(S) ==
  {sq \in [1..Cardinality(S) -> S] : \A i, j \in 1..Cardinality(S) : sq[i] = sq[j] => i = j}

\* the resume seeding of execute: waiting nodes, and idle nodes all of whose
\* predecessors (get_predecessors) are complete
ResumeSeed(w, nd, comp) ==
  SelectSeq(w.order, LAMBDA nid :
    \/ nd[nid].status = "waiting_for_approval"
    \/ /\ nd[nid].status = "idle"
       /\ get_predecessors(w, nid) /= <<>>
       /\ \A p \in SeqToSet(get_predecessors(w, nid)) : p \in comp)

\* "Find nodes that are COMPLETE but have IDLE successors", with the
\* completed set iterated in the order ord
RECURSIVE IdleSuccessors(_, _, _, _)
IdleSuccessors(nd, q, succs, i) ==
  IF i > Len(succs) THEN q
  ELSE IdleSuccessors(nd,
         IF nd[succs[i]].status = "idle" /\ ~InSeq(succs[i], q) THEN Append(q, succs[i]) ELSE q,
         succs, i + 1)

RECURSIVE ResumeFallback(_, _, _, _)
ResumeFallback(w, nd, q, ord) ==
  IF ord = <<>> THEN q
  ELSE ResumeFallback(w, nd, IdleSuccessors(nd, q, get_successors(w, Head(ord)), 1), Tail(ord))

\* execute(workflow, initial_input, resume=True) up to the `while queue`,
\* called on the workflow object a finished execute left behind
StartResume(r) ==
  /\ eng[r].pc = "done"
  /\ eng[r].resumes < MaxResumes
  /\ LET w == WfOf(r)
         comp == {n \in NodeIds(w) : nodes[r][n].status = "complete"}
         seed == ResumeSeed(w, nodes[r], comp)
     IN \E ord \in Orderings(comp) :
          eng' = [eng EXCEPT ![r].pc = "loop", ![r].resume = TRUE,
                             ![r].completed = comp,
                             ![r].queue = IF seed /= <<>> THEN seed
                                          ELSE ResumeFallback(w, nodes[r], <<>>, ord),
                             ![r].dispatched = 0,
                             ![r].raises = 0,
                             ![r].result = Unbound,
                             ![r].outputs = PreloadOutputs(w, nodes[r]),
                             ![r].resumes = @ + 1]
  /\ nodes' = [nodes EXCEPT ![r] = [n \in DOMAIN @ |-> [@[n] EXCEPT !.execs = 0]]]
  /\ UNCHANGED <<tvars, calls, pauseCalls, interventions, intervention>>

\* one pass of the loop body of execute for a node that does not start:
\* skipped at max_iterations, re-queued behind missing predecessors, or
\* polled at the approval gate; otherwise the node is admitted
Dequeue(r) ==
  /\ eng[r].pc = "loop"
  /\ eng[r].queue /= <<>>
  /\ LET w == WfOf(r)
         n == Head(eng[r].queue)
         q == Tail(eng[r].queue)
         comp == eng[r].completed
         nd == IF Recycles(w, nodes[r], n)
               THEN [nodes[r] EXCEPT ![n].status = "idle", ![n].output = NoOutput]
               ELSE nodes[r]
         d == Decision(n)
     IN IF MaxedOut(w, nodes[r], n)
        THEN /\ eng' = [eng EXCEPT ![r].queue = q]
             /\ UNCHANGED <<nodes, interventions, intervention>>
        ELSE IF ~PredecessorsComplete(w, comp, n)
        THEN /\ eng' = [eng EXCEPT ![r].queue = Append(q, n)]
             /\ nodes' = [nodes EXCEPT ![r] = nd]
             /\ UNCHANGED <<interventions, intervention>>
        ELSE IF nd[n].status = "waiting_for_approval"
        THEN /\ interventions' = IF interventions[n] /= None
                                 THEN [interventions EXCEPT ![n] = None] ELSE interventions
             /\ intervention' = IF interventions[n] /= None THEN intervention ELSE None
             /\ IF d = "APPROVE"
                THEN /\ nodes' = [nodes EXCEPT ![r] = [nd EXCEPT ![n].status = "complete"]]
                     /\ eng' = [eng EXCEPT ![r].completed = comp \cup {n},
                                           ![r].queue = QueueSuccessors(q, comp \cup {n},
                                                                        get_successors(w, n))]
                ELSE IF d = "REJECT"
                THEN /\ nodes' = [nodes EXCEPT ![r] = [nd EXCEPT ![n].status = "failed"]]
                     /\ eng' = [eng EXCEPT ![r].queue = q]
                ELSE /\ nodes' = [nodes EXCEPT ![r] = nd]
                     /\ eng' = [eng EXCEPT ![r].queue = Append(q, n)]
        ELSE /\ nodes' = [nodes EXCEPT ![r] = nd]
             /\ eng' = [eng EXCEPT ![r].queue = q, ![r].cur = n, ![r].pc = "acquire"]
             /\ UNCHANGED <<interventions, intervention>>
  /\ UNCHANGED <<tvars, calls, pauseCalls>>

\* _execute_node reaches acquire_slot with the priority of the node's type
EngineAcquire(r) ==
  /\ eng[r].pc = "acquire"
  /\ CallAcquire(r, PriorityOf(WfOf(r).type[eng[r].cur]))
  /\ eng' = [eng EXCEPT ![r].pc = "waitslot"]
  /\ UNCHANGED <<calls, pauseCalls, nodes, interventions, intervention>>

\* _execute_node after acquire_slot returned and the "Processing" log was
\* written: node.status = RUNNING; the executor is entered, and AgentNode
\* counts the iteration
BeginStep(r) ==
  /\ eng[r].pc = "waitslot"
  /\ cst[r] = "holding"
  /\ LET w == WfOf(r)
         n == eng[r].cur
     IN nodes' = [nodes EXCEPT ![r][n].status = "running",
                               ![r][n].iteration_count =
                                   IF w.type[n] \in AgentTypes THEN @ + 1 ELSE @,
                               ![r][n].execs = @ + 1,
                               ![r][n].events = Append(@, "running")]
  /\ eng' = [eng EXCEPT ![r].pc = "exec"]
  /\ UNCHANGED <<tvars, calls, pauseCalls, interventions, intervention>>

\* the executor returns (or raises inside _execute_node, which turns the
\* exception into a failure result); the coroutine is scheduled to go on
\* to `finally: release_slot()`
ExecDone(r, res) ==
  /\ eng[r].pc = "exec"
  /\ SubWorkflowsOf(WfOf(r), eng[r].cur) = <<>>
  /\ res \in OutcomesOf(WfOf(r), eng[r].cur, nodes[r][eng[r].cur].execs)
  /\ eng[r].dispatched + Len(res.dispatch) <= MaxDispatch
  /\ CallRelease(r)
  /\ eng' = [eng EXCEPT ![r].pc = "release", ![r].result = res,
                        ![r].dispatched = @ + Len(res.dispatch)]
  /\ UNCHANGED <<calls, pauseCalls, nodes, interventions, intervention>>

\* the status of every node (kept beside each snapshot of self.history as
\* status_then, for comparison: ExecutionSnapshot itself holds no status)
StatusOf(nd) == [m \in DOMAIN nd |-> nd[m].status]

\* the rest of the loop body applied to the engine state of call r
Commit(r, L) ==
  LET n == eng[r].cur
      res == eng[r].result
      outs == OutputsAfterStep(WfOf(r), eng[r].outputs, n, res)
      continues == StepStatus(WfOf(r), n, res) = "waiting_for_approval"
  IN /\ nodes' = [nodes EXCEPT ![r] =
                       IF continues THEN L.nodes
                       ELSE Emitted(L.nodes, n, StepStatus(WfOf(r), n, res))]
     /\ eng' = [eng EXCEPT ![r].pc = "loop", ![r].queue = L.queue,
                           ![r].completed = L.completed, ![r].cur = None,
                           ![r].outputs = outs,
                           ![r].history =
                               IF continues THEN @
                               ELSE Append(@, ExecutionSnapshot(@, n, blackboard, outs)),
                           ![r].status_then =
                               IF continues THEN @
                               ELSE Append(@, StatusOf(Emitted(L.nodes, n, StepStatus(WfOf(r), n, res))))]

\* release_slot in the finally of _execute_node.  After a failed step
\* execute runs on without suspending (emit_trace does not await): the node
\* is FAILED in the same segment.  After a successful step execute awaits
\* emit_thought (the session log write), with the node still RUNNING.
EngineRelease(r) ==
  /\ eng[r].pc = "release"
  /\ release_slot(r)
  /\ IF eng[r].result.success
     THEN /\ eng' = [eng EXCEPT ![r].pc = "emit"]
          /\ UNCHANGED nodes
     ELSE Commit(r, AfterStep(WfOf(r), LocalOf(r), eng[r].cur, eng[r].result))
  /\ UNCHANGED <<interventions, intervention>>

\* execute after a successful step: status, dispatch tags, edge routing
PostStep(r) ==
  /\ eng[r].pc = "emit"
  /\ Commit(r, AfterStep(WfOf(r), LocalOf(r), eng[r].cur, eng[r].result))
  /\ UNCHANGED <<tvars, calls, pauseCalls, interventions, intervention>>

\* the rest of the loop body after an exception was caught
CommitRaise(r, L) ==
  LET n == eng[r].cur
      outs == OutputsAfterRaise(WfOf(r), eng[r].outputs, eng[r].result)
  IN /\ nodes' = [nodes EXCEPT ![r] = Emitted(L.nodes, n, "failed")]
     /\ eng' = [eng EXCEPT ![r].pc = "loop", ![r].queue = L.queue,
                           ![r].completed = L.completed, ![r].cur = None,
                           ![r].raises = @ + 1,
                           ![r].outputs = outs,
                           ![r].history = Append(@, ExecutionSnapshot(@, n, blackboard, outs)),
                           ![r].status_then = Append(@, StatusOf(L.nodes))]

\* an exception inside the try of the loop body before `result` is assigned
\* (the STARTED trace callback, or the log call of _execute_node ahead of
\* acquire_slot).  With `result` unbound the read at the dispatch handling
\* raises UnboundLocalError out of execute.
StepRaises(r) ==
  /\ eng[r].pc = "acquire"
  /\ eng[r].raises < MaxRaises
  /\ IF eng[r].result = Unbound
     THEN /\ nodes' = [nodes EXCEPT ![r][eng[r].cur].status = "failed",
                                    ![r][eng[r].cur].events = Append(@, "failed")]
          /\ eng' = [eng EXCEPT ![r].pc = "raised", ![r].raises = @ + 1,
                                ![r].completed = @ \cup {eng[r].cur}]
     ELSE CommitRaise(r, AfterRaise(WfOf(r), LocalOf(r), eng[r].cur, eng[r].result))
  /\ UNCHANGED <<tvars, calls, pauseCalls, interventions, intervention>>

\* an exception after `result` is assigned (the usage thought callback)
PostStepRaises(r) ==
  /\ eng[r].pc = "emit"
  /\ eng[r].raises < MaxRaises
  /\ CommitRaise(r, AfterRaise(WfOf(r), LocalOf(r), eng[r].cur, eng[r].result))
  /\ UNCHANGED <<tvars, calls, pauseCalls, interventions, intervention>>

\* the queue is empty: execute returns
Finish(r) ==
  /\ eng[r].pc = "loop"
  /\ eng[r].queue = <<>>
  /\ eng' = [eng EXCEPT ![r].pc = "done", ![r].returned = Append(@, eng[r].outputs)]
  /\ UNCHANGED <<tvars, calls, pauseCalls, nodes, interventions, intervention>>

\* "\n\n--- Sub-Workflow Outputs ---\n\n"
s_sub_header == <<"\n", "\n", "-", "-", "-", " ", "S", "u", "b", "-", "W", "o", "r", "k", "f", "l",
                  "o", "w", " ", "O", "u", "t", "p", "u", "t", "s", " ", "-", "-", "-", "\n", "\n">>
s_Complete == <<"C", "o", "m", "p", "l", "e", "t", "e">>

\* __inner_execute_node of a node with sub_workflows, up to the first
\* suspension of `await child_engine.execute(sub_workflow, ..)`: engine c is
\* the child engine, built with the parent's callbacks; every engine goes
\* through global_traffic_controller.  (The parent holds its slot: this runs
\* inside the try block of _execute_node.)
SubStart(r, c) ==
  /\ eng[r].pc = "exec"
  /\ SubWorkflowsOf(WfOf(r), eng[r].cur) /= <<>>
  /\ c /= r
  /\ Start(c, SubWorkflowsOf(WfOf(r), eng[r].cur)[1])

\* what the sub-workflow branch returns once child_engine.execute returned:
\* success iff every child node is COMPLETE, the outputs of the child's
\* OUTPUT nodes joined (or "Complete") under the header
SubResult(c) ==
  LET w == WfOf(c)
      out_nodes == SelectSeq(w.order, LAMBDA n :
                     w.type[n] = "output" /\ nodes[c][n].output \notin {NoOutput, <<>>})
      outs == [i \in 1..Len(out_nodes) |-> nodes[c][out_nodes[i]].output]
  IN IF \A n \in NodeIds(w) : nodes[c][n].status = "complete"
     THEN Ok(s_sub_header \o (IF out_nodes /= <<>> THEN JoinParts(outs) ELSE s_Complete), <<>>)
     ELSE Failure

\* the sub-workflow branch after child_engine.execute returned (the node has
\* one attachment, so the loop ends here); _execute_node goes on to
\* `finally: release_slot()`
SubDone(r, c) ==
  /\ eng[r].pc = "exec"
  /\ SubWorkflowsOf(WfOf(r), eng[r].cur) /= <<>>
  /\ c /= r
  /\ eng[c].pc = "done"
  /\ eng[c].wf = SubWorkflowsOf(WfOf(r), eng[r].cur)[1]
  /\ CallRelease(r)
  /\ eng' = [eng EXCEPT ![r].pc = "release", ![r].result = SubResult(c)]
  /\ UNCHANGED <<calls, pauseCalls, nodes, interventions, intervention>>

\* replay_from(step_index) on the engine a finished execute left behind:
\* blackboard and outputs restored from the snapshot, every node with an
\* entry in the restored outputs COMPLETE and every other node IDLE, then
\* execute(resume=True) up to the `while queue`
Replay(r, step_index) ==
  /\ eng[r].pc = "done"
  /\ eng[r].replays < MaxReplays
  /\ step_index >= 0 /\ step_index < Len(eng[r].history)
  /\ LET w == WfOf(r)
         snapshot == eng[r].history[step_index + 1]
         outputs == snapshot.outputs
         nd == [n \in NodeIds(w) |->
                  IF outputs[n] /= NoOutput
                  THEN [nodes[r][n] EXCEPT !.status = "complete", !.output = outputs[n],
                                           !.execs = 0]
                  ELSE [nodes[r][n] EXCEPT !.status = "idle", !.output = NoOutput,
                                           !.execs = 0]]
         comp == {n \in NodeIds(w) : nd[n].status = "complete"}
         seed == ResumeSeed(w, nd, comp)
     IN /\ \E ord \in Orderings(comp) :
             eng' = [eng EXCEPT ![r].pc = "loop", ![r].resume = TRUE,
                                ![r].completed = comp,
                                ![r].queue = IF seed /= <<>> THEN seed
                                             ELSE ResumeFallback(w, nd, <<>>, ord),
                                ![r].dispatched = 0,
                                ![r].raises = 0,
                                ![r].result = Unbound,
                                ![r].outputs = PreloadOutputs(w, nd),
                                ![r].replays = @ + 1]
        /\ nodes' = [nodes EXCEPT ![r] = nd]
        /\ blackboard' = snapshot.blackboard
  /\ UNCHANGED <<tvars, calls, pauseCalls, interventions, intervention, observed>>

\* some execute call in progress has a node that can wait for approval
GateInUse(n) ==
  \E r \in Callers : /\ eng[r].pc \notin {"idle", "done"}
                     /\ n \in NodeIds(WfOf(r))
                     /\ WfOf(r).requires_approval[n]

\* server.py approve_node / reject_node / intervene_workflow with a node_id
Intervene(n, d) ==
  /\ GateInUse(n)
  /\ interventions' = [interventions EXCEPT ![n] = d]
  /\ UNCHANGED <<tvars, calls, pauseCalls, eng, nodes, intervention>>

\* server.py intervene_workflow without a node_id
InterveneGlobal(d) ==
  /\ \E n \in ApprovalNodes : GateInUse(n)
  /\ intervention' = d
  /\ UNCHANGED <<tvars, calls, pauseCalls, eng, nodes, interventions>>

EngineInit ==
  /\ eng = [r \in Callers |-> NotStarted]
  /\ nodes = [r \in Callers |-> <<>>]
  /\ interventions = [n \in ApprovalNodes |-> None]
  /\ intervention = None

\* ===================================================== the shared state map
\* a key without an entry in self.blackboard
NoEntry == <<None>>

\* nodes the operator sends feedback to
FeedbackNodes == {"w"}

\* key = f"{node_id}_feedback"
FeedbackKey(node_id) == node_id \o "_feedback"

BoardKeys == {"phase"} \cup {FeedbackKey(n) : n \in FeedbackNodes}

v_plan == <<"p", "l", "a", "n">>
v_done == <<" ", "d", "o", "n", "e", " ">>
f_fix == <<"f", "i", "x">>
f_go == <<"g", "o">>
Feedbacks == {f_fix, f_go}

\* a <set_state> tag as the patterns capture it: group(1), group(2)
Tag(key, value) == [key |-> key, value |-> value]

\* an output text, as the matches re.finditer finds for the short pattern
\* and for the long pattern, each in the order of the text
Text(short, long) == [short |-> short, long |-> long]

TaggedTexts ==
  {Text(<<>>, <<>>),
   Text(<<Tag("phase", v_plan)>>, <<>>),
   Text(<<>>, <<Tag("phase", v_done)>>),
   Text(<<Tag("phase", v_plan)>>, <<Tag("phase", v_done)>>),
   Text(<<Tag("w_feedback", f_go), Tag("phase", f_go)>>, <<>>)}

\* str.strip() for blanks
RECURSIVE LStrip(_)
LStrip(str) == IF str /= <<>> /\ Head(str) = " " THEN LStrip(Tail(str)) ELSE str
RECURSIVE RStrip(_)
RStrip(str) ==
  IF str /= <<>> /\ str[Len(str)] = " " THEN RStrip(SubSeq(str, 1, Len(str) - 1)) ELSE str
Strip(str) == RStrip(LStrip(str))

\* one `for match in ...` loop of _process_blackboard_tags
RECURSIVE SetAll(_, _, _)
SetAll(bb, tags, strip) ==
  IF tags = <<>> THEN bb
  ELSE SetAll([bb EXCEPT ![Head(tags).key] =
                   IF strip THEN Strip(Head(tags).value) ELSE Head(tags).value],
              Tail(tags), strip)

\* the map after _process_blackboard_tags(text): short form first, then long
BoardAfterTags(bb, text) == SetAll(SetAll(bb, text.short, FALSE), text.long, TRUE)

\* `updated` of _process_blackboard_tags
Updated(text) == text.short /= <<>> \/ text.long /= <<>>

\* WorkflowEngine._process_blackboard_tags(text), as AgentNode.execute and
\* _execute_node call it on an output; the observer is the one server.py
\* constructs the engine with
process_blackboard_tags(text) ==
  /\ Updated(text) => Len(observed) < MaxUpdates
  /\ blackboard' = BoardAfterTags(blackboard, text)
  /\ observed' = IF Updated(text) THEN Append(observed, blackboard') ELSE observed

\* WorkflowEngine.inject_feedback(node_id, feedback)
inject_feedback(node_id, feedback) ==
  LET key == FeedbackKey(node_id)
      current == IF blackboard[key] = NoEntry THEN <<>> ELSE blackboard[key]
  IN /\ Len(current) + 1 + Len(feedback) <= MaxFeedbackLen
     /\ blackboard' = [blackboard EXCEPT ![key] =
                          IF current /= <<>> THEN current \o <<"\n">> \o feedback
                          ELSE feedback]
     /\ UNCHANGED observed

\* self.blackboard = {} of a new engine
BoardInit ==
  /\ blackboard = [k \in BoardKeys |-> NoEntry]
  /\ observed = <<>>

\* ====================================================== building a Workflow
MaxEdges == 3            \* edges a workflow under construction can hold
GraphIds == {"a", "b", "c"}

NoCall == [op |-> None, source |-> None, target |-> None, raised |-> FALSE]
Call(op, s, t, raised) == [op |-> op, source |-> s, target |-> t, raised |-> raised]

\* Workflow(): no nodes, no edges
EmptyGraph == [nodes |-> <<>>, edges |-> <<>>]

\* Workflow.add_node: self.nodes[node.id] = node (a known id keeps its place)
add_node(id) ==
  /\ graph' = [graph EXCEPT !.nodes = IF InSeq(id, @) THEN @ ELSE Append(@, id)]
  /\ call' = Call("add_node", id, None, FALSE)

\* remove_node without its edge filter
NodeDropped(g, node_id) ==
  [g EXCEPT !.nodes = SelectSeq(@, LAMBDA n : n /= node_id)]

\* Workflow.remove_node: the node and every edge at it go; an unknown id is
\* ignored
GraphWithout(g, node_id) ==
  IF InSeq(node_id, g.nodes)
  THEN [nodes |-> SelectSeq(g.nodes, LAMBDA n : n /= node_id),
        edges |-> SelectSeq(g.edges, LAMBDA e : e.source_id /= node_id /\ e.target_id /= node_id)]
  ELSE g

remove_node(node_id) ==
  /\ graph' = GraphWithout(graph, node_id)
  /\ call' = Call("remove_node", node_id, None, FALSE)

\* Workflow.add_edge: ValueError unless both endpoints are nodes
EdgeRaises(g, edge) == ~InSeq(edge.source_id, g.nodes) \/ ~InSeq(edge.target_id, g.nodes)

add_edge(edge) ==
  /\ Len(graph.edges) < MaxEdges
  /\ graph' = IF EdgeRaises(graph, edge) THEN graph
              ELSE [graph EXCEPT !.edges = Append(@, edge)]
  /\ call' = Call("add_edge", edge.source_id, edge.target_id, EdgeRaises(graph, edge))

\* Workflow.validate(allow_cycles) on the workflow under construction
validate_graph(allow_cycles) ==
  /\ call' = Call("validate", allow_cycles, None,
                  validate_workflow([order |-> graph.nodes, edges |-> graph.edges],
                                    allow_cycles) = "ValueError")
  /\ UNCHANGED graph

GraphInit ==
  /\ graph = EmptyGraph
  /\ call = NoCall

\* ============================================================ file tools
MaxTags == 2             \* <write_file> tags handled by one ToolProcessor

\* os.getcwd(), the base_dir of the ToolProcessor an agent node builds
base_dir == <<"/", "w", "/", "a", "p", "p">>

\* the path attribute of a tag
x_plain == <<"f">>
x_nested == <<"d", "/", ".", ".", "/", "f">>
x_parent == <<".", ".", "/", "e", "/", "p">>
x_root == <<".", ".", "/", ".", ".", "/", "e">>
x_absolute == <<"/", "e", "/", "p">>
x_sibling == <<".", ".", "/", "a", "p", "p", "2", "/", "f">>
x_return == <<".", ".", "/", "a", "p", "p", "/", "f">>
TagPaths == {x_plain, x_nested, x_parent, x_root, x_absolute, x_sibling, x_return}

\* the text between the tags, after _clean_content
TagContents == {<<>>, <<"x">>}

\* str.split("/"), the last element of acc being the component read so far
RECURSIVE SplitInto(_, _)
SplitInto(str, acc) ==
  IF str = <<>> THEN acc
  ELSE IF Head(str) = "/" THEN SplitInto(Tail(str), Append(acc, <<>>))
  ELSE SplitInto(Tail(str), [acc EXCEPT ![Len(acc)] = Append(@, Head(str))])

Split(str) == SplitInto(str, << <<>> >>)

\* "/".join(comps)
RECURSIVE Join(_)
Join(comps) ==
  IF comps = <<>> THEN <<>>
  ELSE IF Len(comps) = 1 THEN comps[1]
  ELSE comps[1] \o <<"/">> \o Join(Tail(comps))

dotdot == <<".", ".">>

\* the loop of posixpath.normpath over the components
RECURSIVE NewComps(_, _, _)
NewComps(comps, new_comps, initial_slashes) ==
  IF comps = <<>> THEN new_comps
  ELSE LET comp == Head(comps) IN
    IF comp = <<>> \/ comp = <<".">>
    THEN NewComps(Tail(comps), new_comps, initial_slashes)
    ELSE IF \/ comp /= dotdot
            \/ (~initial_slashes /\ new_comps = <<>>)
            \/ (new_comps /= <<>> /\ new_comps[Len(new_comps)] = dotdot)
    THEN NewComps(Tail(comps), Append(new_comps, comp), initial_slashes)
    ELSE IF new_comps /= <<>>
    THEN NewComps(Tail(comps), SubSeq(new_comps, 1, Len(new_comps) - 1), initial_slashes)
    ELSE NewComps(Tail(comps), new_comps, initial_slashes)

\* os.path.normpath on a POSIX path that has at most one leading slash
normpath(path) ==
  LET initial_slashes == path /= <<>> /\ Head(path) = "/"
      joined == Join(NewComps(Split(path), <<>>, initial_slashes))
      out == IF initial_slashes THEN <<"/">> \o joined ELSE joined
  IN IF out = <<>> THEN <<".">> ELSE out

\* os.path.join(a, b)
join(a, b) ==
  IF b /= <<>> /\ Head(b) = "/" THEN b
  ELSE IF a = <<>> \/ a[Len(a)] = "/" THEN a \o b
  ELSE a \o <<"/">> \o b

\* str.startswith
startswith(str, prefix) ==
  /\ Len(prefix) <= Len(str)
  /\ SubSeq(str, 1, Len(prefix)) = prefix

\* ToolProcessor._safe_path: the normalized target, or None
safe_path(path) ==
  LET target == normpath(join(base_dir, path))
  IN IF ~startswith(target, base_dir) THEN <<None>> ELSE target

NoTag == [path |-> <<None>>, content |-> <<>>, io_error |-> FALSE]
NoResults == [files_created |-> <<>>, errors |-> <<>>]

\* ToolProcessor._process_write_file for one tag; opening or writing the
\* file can fail (io_error), which the handler catches
process_write_file(file_path, content, io_error) ==
  /\ Len(results.files_created) + Len(results.errors) < MaxTags
  /\ tag' = [path |-> file_path, content |-> content, io_error |-> io_error]
  /\ LET target == safe_path(file_path) IN
     IF target = <<None>>
     THEN /\ results' = [results EXCEPT !.errors = Append(@, <<"Blocked write">>)]
          /\ UNCHANGED files
     ELSE IF content = <<>>
     THEN UNCHANGED <<files, results>>
     ELSE IF io_error
     THEN /\ results' = [results EXCEPT !.errors = Append(@, <<"OSError">>)]
          /\ UNCHANGED files
     ELSE /\ files' = files \cup {target}
          /\ results' = [results EXCEPT !.files_created = Append(@, file_path)]

ToolsInit ==
  /\ files = {}
  /\ results = NoResults
  /\ tag = NoTag

\* ========================================================= the API surface
\* server.py stop_workflow: the flag is set; the pause flag of the control
\* state and the broadcast are not read by the engine
stop_workflow ==
  /\ \E r \in Callers : eng[r].pc \notin {"idle", "done"}
  /\ ~is_stopped
  /\ is_stopped' = TRUE
  /\ UNCHANGED <<gvars, xvars>>

\* the module-level state of server.py
SurfaceInit ==
  /\ is_stopped = FALSE
  /\ GraphInit
  /\ ToolsInit

\* ======================================================= provider failover
\* FailoverConfig
max_retries == 3
retry_delay == 1

\* AgentNode.__init__: self.max_retries
node_max_retries == 3

\* the registry get_failover_manager builds, cut down to the keys its two
\* fallback chains name; key 6 is registered by nobody
KeyName == <<"claude_code/opus", "claude_code/sonnet", "groq/llama-3.3-70b-versatile",
             "google_ai/gemini-1.5-pro", "ollama/deepseek-r1", "custom/x",
             "google_ai/gemini-1.5-flash", "ollama/llama3", "claude_code/haiku">>
Keys == DOMAIN KeyName
NoKey == 0
Registered == {k \in Keys : KeyName[k] /= "custom/x"}
KeyPriority == <<10, 10, 20, 25, 30, 100, 25, 30, 10>>

\* the order of the providers dict: claude_code, groq, ollama, google_ai
RegistrationOrder == <<1, 2, 9, 3, 5, 8, 4, 7>>

\* FailoverConfig.model_groups: the capability group of the key's model
GroupOf == <<"high_capability", "balanced", "high_capability",
             "high_capability", "high_capability", None,
             "balanced", "balanced", "fast">>

\* set_fallback_chain("claude_code", "opus", [...]) and
\* set_fallback_chain("claude_code", "sonnet", [...])
fallback_chains == [k \in {1, 2} |-> IF k = 1 THEN <<2, 3, 4, 5>> ELSE <<3, 7, 8, 9>>]

\* the substrings detect_failure_reason looks for
p_rate_limit == <<"r", "a", "t", "e", " ", "l", "i", "m", "i", "t">>
p_too_many_requests == <<"t", "o", "o", " ", "m", "a", "n", "y", " ", "r", "e", "q", "u", "e", "s", "t", "s">>
p_429 == <<"4", "2", "9">>
p_throttl == <<"t", "h", "r", "o", "t", "t", "l">>
p_timeout == <<"t", "i", "m", "e", "o", "u", "t">>
p_timed_out == <<"t", "i", "m", "e", "d", " ", "o", "u", "t">>
p_quota == <<"q", "u", "o", "t", "a">>
p_exceeded == <<"e", "x", "c", "e", "e", "d", "e", "d">>
p_limit_exceeded == <<"l", "i", "m", "i", "t", " ", "e", "x", "c", "e", "e", "d", "e", "d">>
p_auth == <<"a", "u", "t", "h">>
p_unauthorized == <<"u", "n", "a", "u", "t", "h", "o", "r", "i", "z", "e", "d">>
p_401 == <<"4", "0", "1">>
p_403 == <<"4", "0", "3">>
p_api_key == <<"a", "p", "i", " ", "k", "e", "y">>
p_not_found == <<"n", "o", "t", " ", "f", "o", "u", "n", "d">>
p_404 == <<"4", "0", "4">>
p_unavailable == <<"u", "n", "a", "v", "a", "i", "l", "a", "b", "l", "e">>
p_does_not_exist == <<"d", "o", "e", "s", " ", "n", "o", "t", " ", "e", "x", "i", "s", "t">>
p_error == <<"e", "r", "r", "o", "r">>
p_500 == <<"5", "0", "0">>
p_502 == <<"5", "0", "2">>
p_503 == <<"5", "0", "3">>

\* what a task call can produce
e_prefix == <<"E", "r", "r", "o", "r", ":">>
r_ok == <<"o", "k">>
r_rate == <<"E", "r", "r", "o", "r", ":", " ", "r", "a", "t", "e", " ", "l", "i", "m", "i", "t", " ", "e", "x", "c", "e", "e", "d", "e", "d">>
r_auth == <<"E", "r", "r", "o", "r", ":", " ", "4", "0", "1", " ", "U", "n", "a", "u", "t", "h", "o", "r", "i", "z", "e", "d">>
r_timeout == <<"E", "r", "r", "o", "r", ":", " ", "r", "e", "q", "u", "e", "s", "t", " ", "t", "i", "m", "e", "d", " ", "o", "u", "t">>
r_boom == <<"c", "o", "n", "n", "e", "c", "t", "i", "o", "n", " ", "r", "e", "s", "e", "t">>
e_exhausted == <<"A", "l", "l", " ", "f", "a", "i", "l", "o", "v", "e", "r", " ", "a", "t", "t", "e", "m", "p", "t", "s", " ", "e", "x", "h", "a", "u", "s", "t", "e", "d", ".", " ", "L", "a", "s", "t", " ", "e", "r", "r", "o", "r", ":", " ">>

\* result of task(provider, model): a returned string, or a raised exception
\* with this text
Returned(text) == [raised |-> FALSE, text |-> text]
Raised(text) == [raised |-> TRUE, text |-> text]
TaskOutcomes == {Returned(r_ok), Returned(r_rate), Returned(r_auth), Returned(r_timeout),
                 Raised(r_boom)}

\* result.startswith("Error:")
StartsWith(str, prefix) ==
  /\ Len(str) >= Len(prefix)
  /\ \A i \in 1..Len(prefix) : str[i] = prefix[i]

\* the task call ends in the except branch
IsError(out) == out.raised \/ StartsWith(out.text, e_prefix)

\* any(x in error_lower for x in [...])
AnyIn(error_lower, patterns) == \E p \in patterns : Contains(error_lower, p)

\* a classifier that tests the quota patterns ahead of the rate-limit ones
DetectQuotaFirst(error) ==
  LET error_lower == Lower(error)
  IN IF AnyIn(error_lower, {p_quota, p_exceeded, p_limit_exceeded}) THEN "quota_exceeded"
     ELSE IF AnyIn(error_lower, {p_rate_limit, p_too_many_requests, p_429, p_throttl})
     THEN "rate_limit"
     ELSE "unknown"

\* FailoverManager.detect_failure_reason
detect_failure_reason(error) ==
  LET error_lower == Lower(error)
  IN IF AnyIn(error_lower, {p_rate_limit, p_too_many_requests, p_429, p_throttl})
     THEN "rate_limit"
     ELSE IF AnyIn(error_lower, {p_timeout, p_timed_out}) THEN "timeout"
     ELSE IF AnyIn(error_lower, {p_quota, p_exceeded, p_limit_exceeded}) THEN "quota_exceeded"
     ELSE IF AnyIn(error_lower, {p_auth, p_unauthorized, p_401, p_403, p_api_key})
     THEN "authentication"
     ELSE IF AnyIn(error_lower, {p_not_found, p_404, p_unavailable, p_does_not_exist})
     THEN "model_unavailable"
     ELSE IF AnyIn(error_lower, {p_error, p_500, p_502, p_503}) THEN "api_error"
     ELSE "unknown"

\* cooldown_map of ProviderHealth.record_failure (seconds)
cooldown_map == [rate_limit |-> 300, quota_exceeded |-> 3600, timeout |-> 60,
                 api_error |-> 120, authentication |-> 0, model_unavailable |-> 600,
                 unknown |-> 60]

\* ProviderHealth of a freshly registered key
NewHealth == [success_count |-> 0, failure_count |-> 0, cooldown_until |-> 0]

\* ProviderHealth.is_available at time t
is_available(prov, k, t) == t > prov[k].cooldown_until

\* ProviderHealth.success_rate as a fraction <<numerator, denominator>>
success_rate(h) ==
  IF h.success_count + h.failure_count > 0
  THEN <<h.success_count, h.success_count + h.failure_count>>
  ELSE <<1, 1>>

\* ProviderHealth.record_success, when the key is registered
record_success(prov, k) ==
  IF k \in DOMAIN prov THEN [prov EXCEPT ![k].success_count = @ + 1] ELSE prov

\* ProviderHealth.record_failure at time t, when the key is registered
record_failure(prov, k, reason, t) ==
  IF k \in DOMAIN prov
  THEN [prov EXCEPT ![k].failure_count = @ + 1,
                    ![k].cooldown_until = t + cooldown_map[reason]]
  ELSE prov

\* the sort key (priority, -success_rate) of a candidate: a sorts before b
ByPriorityAndRate(prov, a, b) ==
  \/ KeyPriority[a] < KeyPriority[b]
  \/ /\ KeyPriority[a] = KeyPriority[b]
     /\ success_rate(prov[a])[1] * success_rate(prov[b])[2]
          > success_rate(prov[b])[1] * success_rate(prov[a])[2]

\* the sort key priority alone
ByPriority(prov, a, b) == KeyPriority[a] < KeyPriority[b]

\* list.sort(key=...): stable, x goes behind every element that does not
\* sort after it; with_rate tells which of the two sort keys is used
RECURSIVE SortedBy(_, _, _)
SortedBy(sq, prov, with_rate) ==
  IF sq = <<>> THEN <<>>
  ELSE LET front == SortedBy(SubSeq(sq, 1, Len(sq) - 1), prov, with_rate)
           x == sq[Len(sq)]
           After(e) == IF with_rate THEN ByPriorityAndRate(prov, x, e)
                       ELSE ByPriority(prov, x, e)
           keep == Cardinality({i \in 1..Len(front) : ~After(front[i])})
       IN SubSeq(front, 1, keep) \o <<x>> \o SubSeq(front, keep + 1, Len(front))

\* the registered keys in the order of the providers dict
RegisteredSeq(prov) == SelectSeq(RegistrationOrder, LAMBDA k : k \in DOMAIN prov)

\* FailoverManager._get_fallback_candidates at time t.  tier is the key the
\* tier manager proposes for the task category (NoKey: no category, or no
\* proposal).
get_fallback_candidates(prov, cur, tier, t) ==
  LET same == SelectSeq(RegisteredSeq(prov),
                        LAMBDA k : /\ k /= cur
                                   /\ is_available(prov, k, t)
                                   /\ GroupOf[cur] /= None
                                   /\ GroupOf[k] = GroupOf[cur])
      any == SelectSeq(RegisteredSeq(prov),
                       LAMBDA k : k /= cur /\ is_available(prov, k, t))
  IN IF cur \in DOMAIN fallback_chains THEN fallback_chains[cur]
     ELSE IF tier /= NoKey /\ tier /= cur THEN <<tier>>
     ELSE IF same /= <<>> THEN SortedBy(same, prov, TRUE)
     ELSE SortedBy(any, prov, FALSE)

\* "Find next available fallback": the first candidate not attempted yet that
\* is registered and available
next_fallback(prov, fallbacks, attempts, t) ==
  LET ok == SelectSeq(fallbacks,
                      LAMBDA k : /\ ~InSeq(k, attempts)
                                 /\ k \in DOMAIN prov
                                 /\ is_available(prov, k, t))
  IN IF ok = <<>> THEN NoKey ELSE Head(ok)

\* error_msg, attempts[-1]: the result of a call that ran out of candidates
Exhausted(last_error, attempts) ==
  [result |-> e_exhausted \o last_error, key |-> attempts[Len(attempts)]]

NoReturn == [result |-> <<>>, key |-> NoKey]

\* no execute_with_failover call in progress
FoIdle == [pc |-> "idle", primary |-> NoKey, tier |-> NoKey, attempts |-> <<>>,
           attempt |-> 0, last_error |-> <<>>, log |-> <<>>, notes |-> <<>>,
           ret |-> NoReturn, before |-> <<>>]

\* execute_with_failover(provider_id, model, task, on_failover, task_category)
\* up to the first task call
FoEntered(prov, p, tier) ==
  [FoIdle EXCEPT !.pc = "try", !.primary = p, !.tier = tier, !.attempts = <<p>>,
                 !.before = prov]

\* one pass of the loop body: the task was called on attempts[-1] and ended
\* with out at time t
FoAfterTask(f, prov, out, t) ==
  LET cur == f.attempts[Len(f.attempts)]
  IN IF ~IsError(out)
     THEN [f EXCEPT !.pc = "done",
                    !.log = Append(@, [key |-> cur, text |-> out.text, raised |-> FALSE,
                                       outcome |-> "ok"]),
                    !.ret = [result |-> out.text, key |-> cur]]
     ELSE LET reason == detect_failure_reason(out.text)
              prov1 == record_failure(prov, cur, reason, t)
              fallbacks == get_fallback_candidates(prov1, cur, f.tier, t)
              nxt == next_fallback(prov1, fallbacks, f.attempts, t)
              f1 == [f EXCEPT !.last_error = out.text,
                              !.log = Append(@, [key |-> cur, text |-> out.text,
                                                 raised |-> out.raised,
                                                 outcome |-> reason])]
          IN IF nxt /= NoKey
             THEN [f1 EXCEPT !.pc = "sleep",
                             !.notes = Append(@, [old |-> cur, new |-> nxt, reason |-> reason]),
                             !.attempts = Append(@, nxt)]
             ELSE [f1 EXCEPT !.pc = "done", !.ret = Exhausted(out.text, f.attempts)]

\* the health table after the task ended with out at time t
HealthAfterTask(f, prov, out, t) ==
  LET cur == f.attempts[Len(f.attempts)]
  IN IF ~IsError(out) THEN record_success(prov, cur)
     ELSE record_failure(prov, cur, detect_failure_reason(out.text), t)

\* a caller enters execute_with_failover for primary key p
FoCall(p, tier) ==
  /\ fo.pc = "idle"
  /\ ag.pc = "idle"
  /\ fo' = FoEntered(providers, p, tier)
  /\ UNCHANGED <<providers, clock, ag>>

\* `result = await task(current_provider, current_model)` took d seconds and
\* ended with out; the rest of the pass runs without suspending
FoTask(out, d) ==
  /\ fo.pc = "try"
  /\ clock' = clock + d
  /\ providers' = HealthAfterTask(fo, providers, out, clock + d)
  /\ fo' = FoAfterTask(fo, providers, out, clock + d)
  /\ UNCHANGED ag

\* `await asyncio.sleep(self.config.retry_delay)` is over: the next pass of
\* `for attempt in range(max_retries + 1)`, or the end of the loop
FoSleep ==
  /\ fo.pc = "sleep"
  /\ clock' = clock + retry_delay
  /\ fo' = IF fo.attempt + 1 < max_retries + 1
           THEN [fo EXCEPT !.pc = "try", !.attempt = @ + 1]
           ELSE [fo EXCEPT !.pc = "done", !.attempt = @ + 1,
                           !.ret = Exhausted(fo.last_error, fo.attempts)]
  /\ UNCHANGED <<providers, ag>>

\* ------------------------------------------------------- AgentNode.execute
\* AgreementRule of type "contains"
Rule(value, required) == [type |-> "contains", value |-> value, required |-> required]

\* node.agreement_rules of the node in hand
RuleSets == {<<>>, <<Rule(r_ok, TRUE)>>, <<Rule(r_ok, FALSE)>>}

\* AgreementValidator._check_rule
check_rule(output, rule) == Contains(Lower(output), Lower(rule.value))

\* AgreementValidator.validate: no required rule failed
validate(output, rules) ==
  \A i \in 1..Len(rules) : rules[i].required => check_rule(output, rules[i])

NoResult == [ok |-> FALSE, output |-> NoOutput]

AgIdle == [pc |-> "idle", rules |-> <<>>, primary |-> NoKey, current_retry |-> 0,
           generations |-> 0, ret |-> NoResult, status |-> "idle", output |-> NoOutput]

\* a retry that is not counted
SameRetry(current_retry) == current_retry

\* current_retry += 1
NextRetry(current_retry) == current_retry + 1

\* AgentNode.execute is entered for a node with provider/model p and these
\* agreement rules; _execute_node has set the node RUNNING
AgStart(p, rules) ==
  /\ ag.pc = "idle"
  /\ fo.pc = "idle"
  /\ ag' = [AgIdle EXCEPT !.pc = "loop", !.rules = rules, !.primary = p,
                          !.status = "running"]
  /\ UNCHANGED <<providers, clock, fo>>

\* a pass of `while current_retry < self.max_retries` up to the generation:
\* execute_with_failover is entered
AgGenerate ==
  /\ ag.pc = "loop"
  /\ ag.current_retry < node_max_retries
  /\ ag' = [ag EXCEPT !.pc = "gen", !.generations = @ + 1]
  /\ fo' = FoEntered(providers, ag.primary, NoKey)
  /\ UNCHANGED <<providers, clock>>

\* execute_with_failover returned: tools, blackboard tags, validation
AgAfterGen ==
  /\ ag.pc = "gen"
  /\ fo.pc = "done"
  /\ LET output == fo.ret.result
         retry == NextRetry(ag.current_retry)
     IN ag' = IF validate(output, ag.rules)
              THEN [ag EXCEPT !.pc = "returned", !.ret = [ok |-> TRUE, output |-> output]]
              ELSE IF retry < node_max_retries
              THEN [ag EXCEPT !.pc = "loop", !.current_retry = retry]
              ELSE [ag EXCEPT !.pc = "returned", !.current_retry = retry, !.ret = NoResult]
  /\ fo' = FoIdle
  /\ UNCHANGED <<providers, clock>>

\* an exception in the pass after the generation (memory, tool processing):
\* the except branch, with its 1 s backoff when a retry is left
AgRaises ==
  /\ ag.pc = "gen"
  /\ fo.pc = "done"
  /\ LET retry == NextRetry(ag.current_retry)
     IN /\ ag' = IF retry >= node_max_retries
                 THEN [ag EXCEPT !.pc = "returned", !.current_retry = retry, !.ret = NoResult]
                 ELSE [ag EXCEPT !.pc = "loop", !.current_retry = retry]
        /\ clock' = IF retry >= node_max_retries THEN clock ELSE clock + 1
  /\ fo' = FoIdle
  /\ UNCHANGED providers

\* __inner_execute_node and execute take the result: COMPLETE with the
\* output, or FAILED
StepEnds ==
  /\ ag.pc = "returned"
  /\ ag' = [ag EXCEPT !.pc = "stepped",
                      !.status = IF ag.ret.ok THEN "complete" ELSE "failed",
                      !.output = IF ag.ret.ok THEN ag.ret.output ELSE @]
  /\ UNCHANGED <<providers, clock, fo>>

\* ---------------------------------------------- the failover manager alone
\* the health table of the registry; key `cooling` is in cooldown from an
\* earlier call
FailoverInit(cooling) ==
  /\ providers = [k \in Registered |->
                    IF k = cooling THEN [NewHealth EXCEPT !.cooldown_until = 1000]
                    ELSE NewHealth]
  /\ clock = 1
  /\ fo = FoIdle
  /\ ag = AgIdle

InitFailover ==
  /\ TrafficInit(1)
  /\ EngineInit
  /\ \E cooling \in {NoKey, 3} : FailoverInit(cooling)
  /\ BoardInit
  /\ SurfaceInit

NextFailover ==
  \/ \E p \in Keys, tier \in {NoKey, 5} : FoCall(p, tier) /\ UNCHANGED <<tvars, evars, bvars, uvars>>
  \/ \E out \in TaskOutcomes, d \in 0..MaxTaskTime : FoTask(out, d) /\ UNCHANGED <<tvars, evars, bvars, uvars>>
  \/ FoSleep /\ UNCHANGED <<tvars, evars, bvars, uvars>>

SpecFailover == InitFailover /\ [][NextFailover]_vars

\* ------------------------------------------- an agent node's step
InitAgent ==
  /\ TrafficInit(1)
  /\ EngineInit
  /\ FailoverInit(NoKey)
  /\ BoardInit
  /\ SurfaceInit

NextAgent ==
  \/ \E p \in {3, 6}, rules \in RuleSets : AgStart(p, rules) /\ UNCHANGED <<tvars, evars, bvars, uvars>>
  \/ AgGenerate /\ UNCHANGED <<tvars, evars, bvars, uvars>>
  \/ \E out \in {Returned(r_ok), Returned(r_rate)} : FoTask(out, 0) /\ UNCHANGED <<tvars, evars, bvars, uvars>>
  \/ FoSleep /\ UNCHANGED <<tvars, evars, bvars, uvars>>
  \/ AgAfterGen /\ UNCHANGED <<tvars, evars, bvars, uvars>>
  \/ AgRaises /\ UNCHANGED <<tvars, evars, bvars, uvars>>
  \/ StepEnds /\ UNCHANGED <<tvars, evars, bvars, uvars>>

SpecAgent == InitAgent /\ [][NextAgent]_vars

\* ---------------------------------------------- one execute call at a time
Init ==
  /\ TrafficInit(1)
  /\ EngineInit
  /\ FailoverInit(NoKey)
  /\ BoardInit
  /\ SurfaceInit

\* what an executor call can return
Results ==
  {Failure} \cup {Ok(t, d) : t \in {t_draft, t_needs_rework, t_approved, t_neutral, t_billing},
                            d \in {<<>>, <<"Writer">>, <<"o">>, <<"ghost">>, <<"A">>}}

Next ==
  \/ \E wn \in EngineWorkflows : Start(1, wn) /\ UNCHANGED <<fvars, bvars, uvars>>
  \/ StartResume(1) /\ UNCHANGED <<fvars, bvars, uvars>>
  \/ Dequeue(1) /\ UNCHANGED <<fvars, bvars, uvars>>
  \/ EngineAcquire(1) /\ UNCHANGED <<fvars, bvars, uvars>>
  \/ acquire_slot(1) /\ UNCHANGED evars /\ UNCHANGED <<fvars, bvars, uvars>>
  \/ BeginStep(1) /\ UNCHANGED <<fvars, bvars, uvars>>
  \/ \E res \in Results : ExecDone(1, res) /\ UNCHANGED <<fvars, bvars, uvars>>
  \/ EngineRelease(1) /\ UNCHANGED <<fvars, bvars, uvars>>
  \/ process_next /\ UNCHANGED evars /\ UNCHANGED <<fvars, bvars, uvars>>
  \/ PostStep(1) /\ UNCHANGED <<fvars, bvars, uvars>>
  \/ StepRaises(1) /\ UNCHANGED <<fvars, bvars, uvars>>
  \/ PostStepRaises(1) /\ UNCHANGED <<fvars, bvars, uvars>>
  \/ Finish(1) /\ UNCHANGED <<fvars, bvars, uvars>>
  \/ \E n \in ApprovalNodes, d \in Decisions : Intervene(n, d) /\ UNCHANGED <<fvars, bvars, uvars>>
  \/ \E d \in Decisions : InterveneGlobal(d) /\ UNCHANGED <<fvars, bvars, uvars>>
  \/ stop_workflow /\ UNCHANGED <<tvars, evars, fvars, bvars>>

Spec == Init /\ [][Next]_vars

\* ------------------------------------ a workflow submitted to run_workflow
SubmittedWorkflows == EngineWorkflows \cup {"cycle", "fork", "rules"}

NextSubmit ==
  \/ \E wn \in SubmittedWorkflows : run_workflow(1, wn) /\ UNCHANGED <<fvars, bvars, uvars>>
  \/ StartResume(1) /\ UNCHANGED <<fvars, bvars, uvars>>
  \/ Dequeue(1) /\ UNCHANGED <<fvars, bvars, uvars>>
  \/ EngineAcquire(1) /\ UNCHANGED <<fvars, bvars, uvars>>
  \/ acquire_slot(1) /\ UNCHANGED evars /\ UNCHANGED <<fvars, bvars, uvars>>
  \/ BeginStep(1) /\ UNCHANGED <<fvars, bvars, uvars>>
  \/ \E res \in Results : ExecDone(1, res) /\ UNCHANGED <<fvars, bvars, uvars>>
  \/ EngineRelease(1) /\ UNCHANGED <<fvars, bvars, uvars>>
  \/ process_next /\ UNCHANGED evars /\ UNCHANGED <<fvars, bvars, uvars>>
  \/ PostStep(1) /\ UNCHANGED <<fvars, bvars, uvars>>
  \/ StepRaises(1) /\ UNCHANGED <<fvars, bvars, uvars>>
  \/ PostStepRaises(1) /\ UNCHANGED <<fvars, bvars, uvars>>
  \/ Finish(1) /\ UNCHANGED <<fvars, bvars, uvars>>
  \/ \E n \in ApprovalNodes, d \in Decisions : Intervene(n, d) /\ UNCHANGED <<fvars, bvars, uvars>>
  \/ \E d \in Decisions : InterveneGlobal(d) /\ UNCHANGED <<fvars, bvars, uvars>>

SpecSubmit == Init /\ [][NextSubmit]_vars

\* ---------------------------------------- one execute call and a replay
ReplayWorkflows == {"router", "join", "fork", "gate"}

NextReplay ==
  \/ \E wn \in ReplayWorkflows : Start(1, wn) /\ UNCHANGED <<fvars, bvars, uvars>>
  \/ Dequeue(1) /\ UNCHANGED <<fvars, bvars, uvars>>
  \/ EngineAcquire(1) /\ UNCHANGED <<fvars, bvars, uvars>>
  \/ acquire_slot(1) /\ UNCHANGED evars /\ UNCHANGED <<fvars, bvars, uvars>>
  \/ BeginStep(1) /\ UNCHANGED <<fvars, bvars, uvars>>
  \/ \E res \in Results : ExecDone(1, res) /\ UNCHANGED <<fvars, bvars, uvars>>
  \/ EngineRelease(1) /\ UNCHANGED <<fvars, bvars, uvars>>
  \/ process_next /\ UNCHANGED evars /\ UNCHANGED <<fvars, bvars, uvars>>
  \/ PostStep(1) /\ UNCHANGED <<fvars, bvars, uvars>>
  \/ Finish(1) /\ UNCHANGED <<fvars, bvars, uvars>>
  \/ \E k \in 0..(Len(eng[1].history) - 1) : Replay(1, k) /\ UNCHANGED <<fvars, uvars>>
  \/ \E n \in ApprovalNodes, d \in Decisions : Intervene(n, d) /\ UNCHANGED <<fvars, bvars, uvars>>

SpecReplay == Init /\ [][NextReplay]_vars

\* ------------------------------------------------ the shared map alone
InitBoard ==
  /\ TrafficInit(1)
  /\ EngineInit
  /\ FailoverInit(NoKey)
  /\ BoardInit
  /\ SurfaceInit

NextBoard ==
  \/ \E text \in TaggedTexts :
       process_blackboard_tags(text) /\ UNCHANGED <<tvars, evars, fvars, uvars>>
  \/ \E n \in FeedbackNodes, feedback \in Feedbacks :
       inject_feedback(n, feedback) /\ UNCHANGED <<tvars, evars, fvars, uvars>>

SpecBoard == InitBoard /\ [][NextBoard]_vars

\* ------------------------------------------------ scheduling of one call
\* the coroutine of the execute call: the event loop runs it whenever it can
\* go on, and every executor call returns
EngineStep ==
  \/ \E wn \in EngineWorkflows : Start(1, wn) /\ UNCHANGED <<fvars, bvars, uvars>>
  \/ Dequeue(1) /\ UNCHANGED <<fvars, bvars, uvars>>
  \/ EngineAcquire(1) /\ UNCHANGED <<fvars, bvars, uvars>>
  \/ acquire_slot(1) /\ UNCHANGED evars /\ UNCHANGED <<fvars, bvars, uvars>>
  \/ BeginStep(1) /\ UNCHANGED <<fvars, bvars, uvars>>
  \/ \E res \in Results : ExecDone(1, res) /\ UNCHANGED <<fvars, bvars, uvars>>
  \/ EngineRelease(1) /\ UNCHANGED <<fvars, bvars, uvars>>
  \/ PostStep(1) /\ UNCHANGED <<fvars, bvars, uvars>>
  \/ Finish(1) /\ UNCHANGED <<fvars, bvars, uvars>>

\* the operator answers a node that waits for approval
Deliver ==
  \E n \in ApprovalNodes, d \in {"APPROVE", "REJECT"} :
    /\ eng[1].pc \notin {"idle", "done"}
    /\ n \in DOMAIN nodes[1]
    /\ nodes[1][n].status = "waiting_for_approval"
    /\ interventions[n] = None
    /\ Intervene(n, d)
    /\ UNCHANGED <<fvars, bvars, uvars>>

Fairness ==
  /\ WF_vars(EngineStep)
  /\ WF_vars(process_next /\ UNCHANGED <<evars, fvars, bvars, uvars>>)
  /\ WF_vars(Deliver)

SpecLive == Spec /\ Fairness

\* ---------------------------------------------- the controller on its own
InitTraffic ==
  /\ \E cap \in 1..MaxCap : TrafficInit(cap)
  /\ EngineInit
  /\ FailoverInit(NoKey)
  /\ BoardInit
  /\ SurfaceInit

\* a caller of the stand-alone controller asks for a slot
CallerAcquires(c) ==
  /\ calls[c] < MaxCalls
  /\ calls' = [calls EXCEPT ![c] = @ + 1]
  /\ CallAcquire(c, CallerPriority[c])
  /\ UNCHANGED <<pauseCalls, evars>>

NextTraffic ==
  \/ \E c \in Callers : CallerAcquires(c) /\ UNCHANGED <<fvars, bvars, uvars>>
  \/ \E c \in Callers : acquire_slot(c) /\ UNCHANGED evars /\ UNCHANGED <<fvars, bvars, uvars>>
  \/ \E c \in Callers : acquire_slot_resume(c) /\ UNCHANGED evars /\ UNCHANGED <<fvars, bvars, uvars>>
  \/ \E c \in Callers : acquire_slot_granted(c) /\ UNCHANGED evars /\ UNCHANGED <<fvars, bvars, uvars>>
  \/ \E c \in Callers : CallRelease(c) /\ UNCHANGED <<calls, pauseCalls, evars>> /\ UNCHANGED <<fvars, bvars, uvars>>
  \/ \E c \in Callers : release_slot(c) /\ UNCHANGED evars /\ UNCHANGED <<fvars, bvars, uvars>>
  \/ process_next /\ UNCHANGED evars /\ UNCHANGED <<fvars, bvars, uvars>>
  \/ process_next_after_gate /\ UNCHANGED evars /\ UNCHANGED <<fvars, bvars, uvars>>
  \/ process_next_after_sem /\ UNCHANGED evars /\ UNCHANGED <<fvars, bvars, uvars>>
  \/ process_next_after_get /\ UNCHANGED evars /\ UNCHANGED <<fvars, bvars, uvars>>
  \/ \E b \in BOOLEAN : CallSetPause(b) /\ UNCHANGED evars /\ UNCHANGED <<fvars, bvars, uvars>>
  \/ \E b \in BOOLEAN : set_pause(b) /\ UNCHANGED evars /\ UNCHANGED <<fvars, bvars, uvars>>

SpecTraffic == InitTraffic /\ [][NextTraffic]_vars

\* ------------------------------- two callers, one slot, repeated pauses
PauseCallers == {1, 2}

InitPause ==
  /\ TrafficInit(1)
  /\ EngineInit
  /\ FailoverInit(NoKey)
  /\ BoardInit
  /\ SurfaceInit

NextPause ==
  \/ \E c \in PauseCallers : CallerAcquires(c) /\ UNCHANGED <<fvars, bvars, uvars>>
  \/ \E c \in PauseCallers : acquire_slot(c) /\ UNCHANGED evars /\ UNCHANGED <<fvars, bvars, uvars>>
  \/ \E c \in PauseCallers : acquire_slot_resume(c) /\ UNCHANGED evars /\ UNCHANGED <<fvars, bvars, uvars>>
  \/ \E c \in PauseCallers : acquire_slot_granted(c) /\ UNCHANGED evars /\ UNCHANGED <<fvars, bvars, uvars>>
  \/ \E c \in PauseCallers : CallRelease(c) /\ UNCHANGED <<calls, pauseCalls, evars>> /\ UNCHANGED <<fvars, bvars, uvars>>
  \/ \E c \in PauseCallers : release_slot(c) /\ UNCHANGED evars /\ UNCHANGED <<fvars, bvars, uvars>>
  \/ process_next /\ UNCHANGED evars /\ UNCHANGED <<fvars, bvars, uvars>>
  \/ process_next_after_gate /\ UNCHANGED evars /\ UNCHANGED <<fvars, bvars, uvars>>
  \/ process_next_after_sem /\ UNCHANGED evars /\ UNCHANGED <<fvars, bvars, uvars>>
  \/ process_next_after_get /\ UNCHANGED evars /\ UNCHANGED <<fvars, bvars, uvars>>
  \/ \E b \in BOOLEAN : CallSetPauseUpTo(b, MaxToggles) /\ UNCHANGED evars /\ UNCHANGED <<fvars, bvars, uvars>>
  \/ \E b \in BOOLEAN : set_pause(b) /\ UNCHANGED evars /\ UNCHANGED <<fvars, bvars, uvars>>

SpecPause == InitPause /\ [][NextPause]_vars

\* the event loop runs the segment at the head of its ready queue
RunReady ==
  \/ \E c \in PauseCallers : acquire_slot(c) /\ UNCHANGED evars /\ UNCHANGED <<fvars, bvars, uvars>>
  \/ \E c \in PauseCallers : acquire_slot_resume(c) /\ UNCHANGED evars /\ UNCHANGED <<fvars, bvars, uvars>>
  \/ \E c \in PauseCallers : acquire_slot_granted(c) /\ UNCHANGED evars /\ UNCHANGED <<fvars, bvars, uvars>>
  \/ \E c \in PauseCallers : release_slot(c) /\ UNCHANGED evars /\ UNCHANGED <<fvars, bvars, uvars>>
  \/ process_next /\ UNCHANGED evars /\ UNCHANGED <<fvars, bvars, uvars>>
  \/ process_next_after_gate /\ UNCHANGED evars /\ UNCHANGED <<fvars, bvars, uvars>>
  \/ process_next_after_sem /\ UNCHANGED evars /\ UNCHANGED <<fvars, bvars, uvars>>
  \/ process_next_after_get /\ UNCHANGED evars /\ UNCHANGED <<fvars, bvars, uvars>>
  \/ \E b \in BOOLEAN : set_pause(b) /\ UNCHANGED evars /\ UNCHANGED <<fvars, bvars, uvars>>

\* every slot holder comes to call release_slot
HolderReleases ==
  \E c \in PauseCallers :
    CallRelease(c) /\ UNCHANGED <<calls, pauseCalls, evars>> /\ UNCHANGED <<fvars, bvars, uvars>>

\* the event loop keeps running, and holders release
FairPause == WF_vars(RunReady) /\ WF_vars(HolderReleases)

SpecPauseLive == SpecPause /\ FairPause

\* ------------------------------------------------- a workflow being built
NextGraph ==
  \/ \E id \in GraphIds : add_node(id) /\ UNCHANGED <<tvars, evars, fvars, bvars, is_stopped, xvars>>
  \/ \E id \in GraphIds : remove_node(id) /\ UNCHANGED <<tvars, evars, fvars, bvars, is_stopped, xvars>>
  \/ \E s \in GraphIds, t \in GraphIds, fb \in BOOLEAN :
        add_edge(Edge(s, t, fb, None)) /\ UNCHANGED <<tvars, evars, fvars, bvars, is_stopped, xvars>>
  \/ \E allow_cycles \in BOOLEAN :
        validate_graph(allow_cycles) /\ UNCHANGED <<tvars, evars, fvars, bvars, is_stopped, xvars>>

SpecGraph == Init /\ [][NextGraph]_vars

\* --------------------------------------------- the tool tags of an output
NextTools ==
  \/ \E path \in TagPaths, content \in TagContents, io_error \in BOOLEAN :
        process_write_file(path, content, io_error)
          /\ UNCHANGED <<tvars, evars, fvars, bvars, is_stopped, gvars>>

SpecTools == Init /\ [][NextTools]_vars

\* --------------------------------- two execute calls on the shared controller
\* (run_workflow is a request handler: two requests run execute concurrently,
\* both through global_traffic_controller)
ConcRuns == {1, 2}

InitConc ==
  /\ TrafficInit(1)
  /\ EngineInit
  /\ FailoverInit(NoKey)
  /\ BoardInit
  /\ SurfaceInit

NextConc ==
  \/ \E r \in ConcRuns : Start(r, "pipe") /\ UNCHANGED <<fvars, bvars, uvars>>
  \/ \E r \in ConcRuns : Dequeue(r) /\ UNCHANGED <<fvars, bvars, uvars>>
  \/ \E r \in ConcRuns : EngineAcquire(r) /\ UNCHANGED <<fvars, bvars, uvars>>
  \/ \E r \in ConcRuns : acquire_slot(r) /\ UNCHANGED evars /\ UNCHANGED <<fvars, bvars, uvars>>
  \/ \E r \in ConcRuns : acquire_slot_granted(r) /\ UNCHANGED evars /\ UNCHANGED <<fvars, bvars, uvars>>
  \/ \E r \in ConcRuns : BeginStep(r) /\ UNCHANGED <<fvars, bvars, uvars>>
  \/ \E r \in ConcRuns, res \in {Failure, Ok(t_draft, <<>>)} : ExecDone(r, res) /\ UNCHANGED <<fvars, bvars, uvars>>
  \/ \E r \in ConcRuns : EngineRelease(r) /\ UNCHANGED <<fvars, bvars, uvars>>
  \/ process_next /\ UNCHANGED evars /\ UNCHANGED <<fvars, bvars, uvars>>
  \/ \E r \in ConcRuns : PostStep(r) /\ UNCHANGED <<fvars, bvars, uvars>>
  \/ \E r \in ConcRuns : Finish(r) /\ UNCHANGED <<fvars, bvars, uvars>>

SpecConc == InitConc /\ [][NextConc]_vars

\* ------------------------------ a run whose node has an attached sub-workflow
\* (engine 1 is the run, engine 2 the child engine of its node, engine 3 the
\* run of another request; nothing pauses the controller, so _process_next
\* never suspends)
SubRuns == {1, 2, 3}

NextSub ==
  \/ Start(1, "host") /\ UNCHANGED <<fvars, bvars, uvars>>
  \/ Start(3, "pipe") /\ UNCHANGED <<fvars, bvars, uvars>>
  \/ SubStart(1, 2) /\ UNCHANGED <<fvars, bvars, uvars>>
  \/ SubDone(1, 2) /\ UNCHANGED <<fvars, bvars, uvars>>
  \/ \E r \in SubRuns : Dequeue(r) /\ UNCHANGED <<fvars, bvars, uvars>>
  \/ \E r \in SubRuns : EngineAcquire(r) /\ UNCHANGED <<fvars, bvars, uvars>>
  \/ \E r \in SubRuns : acquire_slot(r) /\ UNCHANGED evars /\ UNCHANGED <<fvars, bvars, uvars>>
  \/ \E r \in SubRuns : acquire_slot_granted(r) /\ UNCHANGED evars /\ UNCHANGED <<fvars, bvars, uvars>>
  \/ \E r \in SubRuns : BeginStep(r) /\ UNCHANGED <<fvars, bvars, uvars>>
  \/ \E r \in SubRuns, res \in Results : ExecDone(r, res) /\ UNCHANGED <<fvars, bvars, uvars>>
  \/ \E r \in SubRuns : EngineRelease(r) /\ UNCHANGED <<fvars, bvars, uvars>>
  \/ process_next /\ UNCHANGED evars /\ UNCHANGED <<fvars, bvars, uvars>>
  \/ \E r \in SubRuns : PostStep(r) /\ UNCHANGED <<fvars, bvars, uvars>>
  \/ \E r \in SubRuns : Finish(r) /\ UNCHANGED <<fvars, bvars, uvars>>

SpecSub == InitTraffic /\ [][NextSub]_vars

\* the event loop runs every segment that can run, and every executor call
\* returns
SpecSubLive == SpecSub /\ WF_vars(NextSub)

\* ============================================================= properties
Started(r) == eng[r].wf /= NoWorkflow

\* the node call r has admitted and not yet finished
InHand(r) == IF eng[r].pc \in {"acquire", "waitslot", "exec", "release", "emit"}
             THEN eng[r].cur ELSE None

\* this step is the seeding of a fresh execute call / of a resumed one
FreshStart(r) == eng[r].pc = "idle" /\ eng'[r].pc = "loop"
ResumeStart(r) == eng[r].pc = "done" /\ eng'[r].pc = "loop"

\* this step admits node n of call r to execution
Admits(r, n) == eng[r].pc = "loop" /\ eng'[r].pc = "acquire" /\ eng'[r].cur = n

\* this step takes node n of call r from the head of the queue
Dequeues(r, n) ==
  /\ eng[r].pc = "loop" /\ eng[r].queue /= <<>> /\ Head(eng[r].queue) = n
  /\ <<eng'[r], nodes'[r]>> /= <<eng[r], nodes[r]>>

HasFeedbackIn(w, n) == \E i \in 1..Len(w.edges) : w.edges[i].target_id = n /\ w.edges[i].feedback

\* every non-feedback predecessor of n has status COMPLETE in node table nd
ForwardComplete(w, nd, n) == \A p \in required_predecessors(w, n) : nd[p].status = "complete"

\* C1: a node starts executing only when every source of a non-feedback
\* edge into it has status COMPLETE (a FAILED predecessor does not count).
C1_StartsOnlyAfterPredecessorsComplete ==
  \A r \in Callers :
    eng[r].pc \in {"acquire", "waitslot", "exec"} =>
      ForwardComplete(WfOf(r), nodes[r], eng[r].cur)

\* C2: feedback edges never contribute to readiness: an idle node whose
\* non-feedback predecessors are all complete is seeded when execute starts
\* (fresh or resumed) and is admitted when it is dequeued, whatever the
\* status of the sources of its feedback edges.
C2_FeedbackNeverBlocks ==
  [][\A r \in Callers :
       /\ (FreshStart(r) \/ ResumeStart(r)) =>
            \A n \in DOMAIN nodes'[r] :
              ( /\ HasFeedbackIn(Workflows[eng'[r].wf], n)
                /\ nodes'[r][n].status = "idle"
                /\ ForwardComplete(Workflows[eng'[r].wf], nodes'[r], n) )
              => InSeq(n, eng'[r].queue)
       /\ \A n \in DOMAIN nodes[r] :
            ( /\ Dequeues(r, n)
              /\ nodes[r][n].status = "idle"
              /\ ForwardComplete(WfOf(r), nodes[r], n) )
            => Admits(r, n)
    ]_vars

\* C3: on a fresh start every node is idle and the queue is exactly the set
\* of nodes with no incoming non-feedback edge.
C3_FreshSeedIsForwardEntryNodes ==
  [][\A r \in Callers :
       FreshStart(r) =>
         /\ \A n \in DOMAIN nodes'[r] : nodes'[r][n].status = "idle"
         /\ SeqToSet(eng'[r].queue) =
              {n \in DOMAIN nodes'[r] : required_predecessors(Workflows[eng'[r].wf], n) = {}}
    ]_vars

\* C4: iteration_count <= max_iterations always, and no node is executed
\* more than max_iterations times in one run.
C4_IterationsBounded ==
  \A r \in Callers : Started(r) =>
    \A n \in DOMAIN nodes[r] :
      /\ nodes[r][n].iteration_count <= WfOf(r).max_iterations[n]
      /\ nodes[r][n].execs <= WfOf(r).max_iterations[n]

\* callers that returned from acquire_slot and have not run release_slot
Holders == {c \in Callers : cst[c] \in {"holding", "releasing"}}

\* C5: 0 <= active_count <= max_concurrency in every state, and
\* active_count = 0 whenever no caller holds a slot.
C5_ActiveCountBounded ==
  /\ 0 <= active_count
  /\ active_count <= max_concurrency
  /\ (Holders = {} => active_count = 0)

C5_Witness ==
  /\ max_concurrency = 2
  /\ active_count = 2
  /\ tqueue /= {}
  /\ pauseCalls > 0

Running == {rn \in Callers \X {"p", "q"} :
              Started(rn[1]) /\ rn[2] \in DOMAIN nodes[rn[1]]
                /\ nodes[rn[1]][rn[2]].status = "running"}

\* C6: with max_concurrency = 1 at most one node is RUNNING at any instant,
\* over all execute calls that share the controller.
C6_OneRunningNode ==
  max_concurrency = 1 => Cardinality(Running) <= 1

\* node n of call r becomes COMPLETE in this step
Completes(r, n) ==
  /\ n \in DOMAIN nodes[r] /\ n \in DOMAIN nodes'[r]
  /\ nodes[r][n].status /= "complete" /\ nodes'[r][n].status = "complete"

NewlyQueued(r, t) == InSeq(t, eng'[r].queue) /\ ~InSeq(t, eng[r].queue)

OutputLower(nd, n) == IF nd[n].output = NoOutput THEN <<>> ELSE Lower(nd[n].output)

\* C7: when an auditor completes with an output that has neither an
\* approval nor a rejection marker, no target of its outgoing edges is
\* enqueued (also when it is completed by APPROVE).
C7_SilentAuditorAdvancesNothing ==
  [][\A r \in Callers : \A n \in DOMAIN nodes[r] :
       ( /\ Completes(r, n)
         /\ WfOf(r).type[n] = "auditor"
         /\ ~HasApproval(OutputLower(nodes'[r], n))
         /\ ~HasRejection(OutputLower(nodes'[r], n)) )
       => \A t \in SeqToSet(get_successors(WfOf(r), n)) : ~NewlyQueued(r, t)
    ]_vars

\* C8: in the Writer/Critic/Out loop (Writer.max_iterations = 2, Critic
\* answering "needs_rework" then "approved") the run executes Writer
\* exactly twice and Out ends COMPLETE.
C8_LoopRunsWriterTwice ==
  \A r \in Callers :
    (eng[r].wf = "loop" /\ eng[r].pc = "done" /\ ~eng[r].resume) =>
      /\ nodes[r]["w"].execs = 2
      /\ nodes[r]["o"].status = "complete"

\* C9: when a router completes, an outgoing edge with a condition fires
\* only if the condition occurs in the router's output.
C9_RouterFiresMatchingEdgesOnly ==
  [][\A r \in Callers : \A n \in DOMAIN nodes[r] :
       (Completes(r, n) /\ WfOf(r).type[n] = "router") =>
         \A i \in 1..Len(WfOf(r).edges) :
           LET e == WfOf(r).edges[i] IN
           (e.source_id = n /\ e.condition /= None /\ NewlyQueued(r, e.target_id))
             => Contains(nodes'[r][n].output, e.condition)
    ]_vars

\* this step polls check_intervention for the waiting node n of call r: the
\* decision it returns is consumed
Polls(r, n) ==
  /\ eng[r].pc = "loop" /\ eng[r].queue /= <<>> /\ Head(eng[r].queue) = n
  /\ nodes[r][n].status = "waiting_for_approval"
  /\ PredecessorsComplete(WfOf(r), eng[r].completed, n)
  /\ interventions'[n] = None
  /\ (interventions[n] = None => intervention' = None)

\* C10: a node with requires_approval leaves RUNNING for
\* waiting-for-approval after a successful step, becomes COMPLETE only by a
\* poll that returns APPROVE, is FAILED by REJECT and stays waiting on any
\* other value; no node behind a non-feedback edge out of it starts
\* executing while it is not COMPLETE.
C10_ApprovalGate ==
  [][\A r \in Callers : \A n \in DOMAIN nodes[r] :
       (n \in DOMAIN nodes'[r] /\ WfOf(r).requires_approval[n]) =>
         LET old == nodes[r][n].status
             new == nodes'[r][n].status
         IN /\ (old = "running" /\ new /= "running") =>
                 new = IF eng[r].result.success THEN "waiting_for_approval" ELSE "failed"
            /\ (old /= "complete" /\ new = "complete") =>
                 (Polls(r, n) /\ Decision(n) = "APPROVE")
            /\ Polls(r, n) =>
                 new = IF Decision(n) = "APPROVE" THEN "complete"
                       ELSE IF Decision(n) = "REJECT" THEN "failed"
                       ELSE "waiting_for_approval"
            /\ \A t \in DOMAIN nodes[r] :
                 (n \in required_predecessors(WfOf(r), t) /\ Admits(r, t))
                   => old = "complete"
    ]_vars

\* this step is the handling of an exception raised in the step of node n
\* before the step produced a result
RaisesBeforeResult(r, n) ==
  /\ eng[r].pc = "acquire" /\ eng[r].cur = n
  /\ eng'[r].raises = eng[r].raises + 1

\* C11: execute never propagates an exception: an exception in a node's
\* step marks that node FAILED, the processing after it uses only that
\* node's own result (a step that produced none dispatches nothing: no other
\* node and no queue entry changes), and the run goes on with the queue.
C11_ExceptionStaysInItsStep ==
  [][\A r \in Callers : \A n \in DOMAIN nodes[r] :
       RaisesBeforeResult(r, n) =>
         /\ eng'[r].pc = "loop"
         /\ nodes'[r][n].status = "failed"
         /\ \A m \in DOMAIN nodes[r] \ {n} : nodes'[r][m] = nodes[r][m]
         /\ eng'[r].queue = eng[r].queue
    ]_vars


\* call r has ended: execute returned, or an exception left it
Ended(r) == eng[r].pc \in {"done", "raised"}

\* node n of call 1 waits for approval
Waiting(n) == n \in DOMAIN nodes[1] /\ nodes[1][n].status = "waiting_for_approval"

\* every approval poll eventually yields APPROVE or REJECT: no node waits
\* for ever
PollsDecide == \A n \in ApprovalNodes : Waiting(n) ~> ~Waiting(n)

\* C12: for every workflow whose non-feedback subgraph is acyclic, a started
\* execute call eventually ends (its queue becomes empty and it returns),
\* given that every executor call returns and every waiting node eventually
\* gets its decision -- also when a predecessor of a queued join node was
\* rejected or was never routed to.
C12_ExecuteReturns == PollsDecide => (Started(1) ~> Ended(1))


\* ------------------------------------------------------- provider failover
\* the call in fo tried the primary, got an "Error:" string classified as a
\* rate limit, failed over to key s, and the task on s returned a result
RateLimitThenOk(s) ==
  /\ fo.pc = "done"
  /\ Len(fo.log) = 2
  /\ fo.log[1].key = fo.primary /\ fo.log[1].text = r_rate /\ ~fo.log[1].raised
  /\ fo.log[2].key = s /\ fo.log[2].text = r_ok /\ ~fo.log[2].raised

Invoked == [i \in 1..Len(fo.log) |-> fo.log[i].key]

\* C14: one execute_with_failover call invokes the task at most max_retries
\* times, and never twice on the same (provider, model) key.
C14_AtMostMaxRetriesDistinctAttempts ==
  /\ Len(Invoked) <= max_retries
  /\ \A i, j \in 1..Len(Invoked) : i /= j => Invoked[i] /= Invoked[j]

\* this step is a task call that failed with an AUTHENTICATION error
AuthFailure ==
  /\ fo.pc = "try"
  /\ Len(fo'.log) = Len(fo.log) + 1
  /\ fo'.log[Len(fo'.log)].outcome = "authentication"

\* C15: an attempt that fails with an AUTHENTICATION error exhausts the call
\* at once: the failed key gets a 0 s cooldown, no further candidate is
\* attempted, and the call returns the exhaustion result.
C15_AuthenticationExhausts ==
  [][AuthFailure =>
       LET cur == fo.attempts[Len(fo.attempts)]
       IN /\ cur \in Registered => providers'[cur].cooldown_until = clock'
          /\ fo'.attempts = fo.attempts
          /\ fo'.pc = "done"
          /\ fo'.ret = Exhausted(r_auth, fo.attempts)
    ]_vars

\* the text is the result of a call that ran out of candidates
IsExhaustion(text) == StartsWith(text, e_exhausted)

\* C16: when the failover candidates are exhausted during an agent node's
\* generation the step fails: the exhaustion message is never the output of
\* a node with status COMPLETE.
C16_ExhaustionIsNeverAnOutput ==
  ag.status = "complete" => ~IsExhaustion(ag.output)

\* C17: the validation loop generates at most max_retries (3) times per node
\* step, validation failures and exceptions counting on the one retry
\* counter; it returns ok only with an output that passes every required
\* agreement rule, and it has returned failure once the retries are used up.
C17_ValidationLoopBounded ==
  /\ ag.generations <= node_max_retries
  /\ ag.generations <= ag.current_retry + 1
  /\ (ag.pc \in {"returned", "stepped"} /\ ag.ret.ok) => validate(ag.ret.output, ag.rules)
  /\ ag.current_retry >= node_max_retries => (ag.pc \in {"returned", "stepped"} /\ ~ag.ret.ok)

C17_Witness ==
  /\ ag.pc = "returned"
  /\ ~ag.ret.ok
  /\ ag.generations = node_max_retries
  /\ ag.rules /= <<>>

\* ------------------------------------------------------- the shared state map
\* a step that writes the blackboard
WritesBoard == blackboard' /= blackboard

\* a step in which the observer is called with the map as it now is
NotifiesObserver ==
  /\ Len(observed') = Len(observed) + 1
  /\ observed'[Len(observed')] = blackboard'

\* C18: every write to the blackboard, by a parsed <set_state> tag or by an
\* inject_feedback intervention, is followed by a blackboard-update
\* notification to the observer that carries the full current map.
C18_EveryWriteNotifies == [][WritesBoard => NotifiesObserver]_vars

\* ---------------------------------------------------------------- history
\* the step of the node in hand ends in this transition of call r
EndsStep(r) == InHand(r) /= None /\ eng'[r].pc = "loop"

\* ... and it ends as a successful step: _execute_node returned success and
\* nothing was raised
Succeeds(r) ==
  /\ EndsStep(r)
  /\ eng[r].result.success
  /\ eng'[r].raises = eng[r].raises

\* this transition approves a node of call r that waited for approval
Approves(r) ==
  \E n \in DOMAIN nodes[r] : Polls(r, n) /\ Completes(r, n)

\* a snapshot is due: an ungated node's step succeeded, or a node whose
\* step had succeeded is approved
SnapshotDue(r) ==
  \/ Succeeds(r) /\ ~WfOf(r).requires_approval[eng[r].cur]
  \/ Approves(r)

\* exactly one snapshot is appended to the history / none is
AppendsSnapshot(r) ==
  /\ Len(eng'[r].history) = Len(eng[r].history) + 1
  /\ SubSeq(eng'[r].history, 1, Len(eng[r].history)) = eng[r].history
KeepsHistory(r) == eng'[r].history = eng[r].history

\* the k-th snapshot carries the k-th index (indices count from 0, as
\* replay_from reads them)
IndexedInOrder(r) ==
  \A k \in 1..Len(eng[r].history) : eng[r].history[k].step_index = k - 1

\* C19: a snapshot is appended to the history exactly when a node step has
\* succeeded: none for a failed step, one for a node that succeeds and is
\* then approved; and the k-th snapshot recorded has the k-th step_index,
\* also across resume.
C19_SnapshotPerSuccessfulStep ==
  /\ [](\A r \in Callers : IndexedInOrder(r))
  /\ [][\A r \in Callers : IF SnapshotDue(r) THEN AppendsSnapshot(r) ELSE KeepsHistory(r)]_vars

\* ----------------------------------------------------------------- replay
\* every executor of w returns one and the same result whenever it is called
Deterministic(w) ==
  \A n \in NodeIds(w) : Len(w.script[n]) = 1 /\ Cardinality(w.script[n][1]) = 1

\* this transition is a replay_from call on the engine of call r
Replays(r) == eng'[r].replays = eng[r].replays + 1

\* call r ran to its end, was replayed once from a snapshot, and the
\* resumed execution has returned as well
ReplayReturned(r) ==
  /\ eng[r].replays = 1
  /\ eng[r].pc = "done"
  /\ Len(eng[r].returned) = 2

\* after the replay every idle node without predecessors is queued: nothing
\* else can bring it to execution
EntryNodesQueued(r) ==
  \A n \in NodeIds(WfOf(r)) :
    (nodes'[r][n].status = "idle" /\ get_predecessors(WfOf(r), n) = <<>>)
      => InSeq(n, eng'[r].queue)

\* C20: with deterministic executors, replay_from(k) followed by the
\* resumed execution ends with the same per-node output map as the
\* uninterrupted run that produced snapshot k; every node that was not
\* complete at snapshot k, entry nodes without predecessors included, is
\* idle after the replay and is executed again.
C20_ReplayReproducesOutputs ==
  /\ [](\A r \in Callers :
          (Started(r) /\ Deterministic(WfOf(r)) /\ ReplayReturned(r))
            => eng[r].returned[2] = eng[r].returned[1])
  /\ [][\A r \in Callers : Replays(r) => EntryNodesQueued(r)]_vars

\* ------------------------------------------------------------------- stop
\* C21: after the stop signal is received during a run the engine admits no
\* new node: a node already running finishes its step, and no node starts
\* executing afterwards in that run.
C21_NoAdmissionAfterStop ==
  [][\A r \in Callers : \A n \in DOMAIN nodes[r] : is_stopped => ~Admits(r, n)]_vars

\* ------------------------------------------------------------------ pause
\* this step grants caller c a slot: the fast path of acquire_slot takes a
\* permit, or _process_next resolves the future of c's ticket
GrantsSlot(c) ==
  \/ cst[c] \in {"called", "gate"} /\ cst'[c] = "holding"
  \/ /\ cst[c] = "ticket"
     /\ InSeq(Entry("grant", c), ready')
     /\ ~InSeq(Entry("grant", c), ready)

\* a slot that is held stays held until its holder releases it
StaysHeld(c) == cst[c] = "holding" => cst'[c] \in {"holding", "releasing"}

\* C22: while the traffic controller is paused no acquire_slot call is
\* granted a slot, neither on the fast path nor from the waiter queue, also
\* when release_slot or a resume followed by a pause happens meanwhile;
\* slots already held stay held until released.
C22_NoGrantWhilePaused ==
  [][\A c \in Callers : (is_paused => ~GrantsSlot(c)) /\ StaysHeld(c)]_vars

\* --------------------------------------------------------------- priority
\* the ticket caller c waits on, if it is still queued
TicketOf(c) == {a \in tqueue : a.caller = c}

\* caller c is blocked in acquire_slot: held at the pause gate, or queued
\* as a ticket that no _process_next has taken
Blocked(c) ==
  \/ cst[c] = "gate"
  \/ cst[c] = "ticket" /\ TicketOf(c) /= {}

\* caller d, blocked as well, should have been served before caller c: its
\* priority number is lower, or the priorities are equal and its ticket is
\* the older one
ServedBefore(d, c) ==
  \/ cprio[d] < cprio[c]
  \/ /\ cprio[d] = cprio[c]
     /\ \E a \in TicketOf(d), b \in TicketOf(c) : a.timestamp < b.timestamp

\* C23: whenever a slot is granted while several callers are blocked in
\* acquire_slot, queued as tickets or held at the pause gate, it goes to the
\* caller with the lowest priority number, and among callers of equal
\* priority to the one that called acquire_slot first.
C23_GrantFollowsPriority ==
  [][\A c, d \in Callers :
       (c /= d /\ Blocked(c) /\ Blocked(d) /\ GrantsSlot(c)) => ~ServedBefore(d, c)]_vars

\* ------------------------------------------------------------- starvation
\* caller c is inside acquire_slot / has returned from it
InAcquire(c) == cst[c] \in {"called", "gate", "ticket"}
HasSlot(c) == cst[c] = "holding"

\* C24: provided every slot holder eventually calls release_slot and the
\* controller is not left paused (finitely many callers arrive), every
\* acquire_slot call eventually returns.
C24_EveryAcquireReturns ==
  (<>[](~is_paused)) => \A c \in PauseCallers : InAcquire(c) ~> HasSlot(c)

\* a caller that queued a ticket behind the holder of the only slot has had
\* its future resolved after the holder's release
C24_Witness ==
  \E c \in PauseCallers :
    /\ InSeq(Entry("grant", c), ready)
    /\ \E d \in PauseCallers \ {c} : calls[d] >= 1 /\ cst[d] = "out"

\* C25: whatever add_node, add_edge and remove_node calls were made, the
\* source and the target of every edge are nodes of the workflow; and an
\* add_edge call naming a node that is not there raises and changes neither
\* the nodes nor the edges
EndpointsExist(g) ==
  \A i \in 1..Len(g.edges) :
    InSeq(g.edges[i].source_id, g.nodes) /\ InSeq(g.edges[i].target_id, g.nodes)

MissingEndpoint(g, c) == ~InSeq(c.source, g.nodes) \/ ~InSeq(c.target, g.nodes)

C25_EdgesReferToNodes ==
  [][/\ EndpointsExist(graph')
     /\ (call'.op = "add_edge" /\ MissingEndpoint(graph, call'))
          => (call'.raised /\ graph' = graph)]_vars

\* a node with edges at it was removed, and an add_edge call raised
C25_Witness ==
  /\ call.op = "add_edge" /\ call.raised
  /\ Len(graph.edges) = 1
  /\ Len(graph.nodes) = 2
  /\ ~InSeq(call.target, graph.nodes)

\* C26: a workflow whose non-feedback edges form a cycle never gets into
\* execute through run_workflow, and none of its nodes is executed
Executed(r) == {n \in DOMAIN nodes[r] : nodes[r][n].execs > 0}

C26_CyclicWorkflowRejected ==
  \A r \in Callers :
    (eng[r].wf /= NoWorkflow /\ is_cyclic(Workflows[eng[r].wf]))
      => (~Started(r) /\ Executed(r) = {})

\* C27: at every moment of a run a node holds an output exactly when its
\* status is complete or waiting-for-approval
HoldsOutput(r, n) == nodes[r][n].output /= NoOutput

C27_OutputIffCompleteOrWaiting ==
  \A r \in Callers : \A n \in DOMAIN nodes[r] :
    HoldsOutput(r, n) <=> nodes[r][n].status \in {"complete", "waiting_for_approval"}

\* C28: a node whose status is failed keeps that status for the rest of the
\* execute call: no step of the run sets it to idle, running or anything else
InRun(r) == eng[r].pc \notin {"idle", "done", "raised"}
Failed(r, n) == nodes[r][n].status = "failed"

C28_FailedIsTerminal ==
  [][\A r \in Callers : \A n \in DOMAIN nodes[r] :
       (InRun(r) /\ Failed(r, n)) => nodes'[r][n].status = "failed"]_vars

\* C29: every change of a node's status during a run comes with a status
\* event for that node carrying the new status: running, then complete or
\* failed, and waiting-for-approval and what follows it as well
ChangesStatus(r, n) ==
  /\ nodes'[r][n].status /= nodes[r][n].status
  /\ nodes'[r][n].status \in {"running", "complete", "failed", "waiting_for_approval"}
EmitsStatus(r, n) ==
  nodes'[r][n].events = Append(nodes[r][n].events, nodes'[r][n].status)

C29_EveryStatusChangeEmitted ==
  [][\A r \in Callers : \A n \in DOMAIN nodes[r] \cap DOMAIN nodes'[r] :
       (InRun(r) /\ ChangesStatus(r, n)) => EmitsStatus(r, n)]_vars

\* C30: a write_file tag with content whose path, once normalized, lies
\* outside the base directory changes no file and adds an entry to
\* results.errors
Components(path) == SelectSeq(Split(path), LAMBDA comp : comp /= <<>>)

Within(path, dir) ==
  LET p == Components(path)
      d == Components(dir)
  IN Len(d) <= Len(p) /\ SubSeq(p, 1, Len(d)) = d

Escapes(path) == ~Within(normpath(join(base_dir, path)), base_dir)

Handles(path) == tag' /= tag /\ tag'.path = path /\ tag'.content /= <<>>

C30_EscapingPathBlocked ==
  [][\A path \in TagPaths :
       (Handles(path) /\ Escapes(path))
         => /\ files' = files
            /\ Len(results'.errors) = Len(results.errors) + 1]_vars

\* C31: when a node completes with a dispatch tag that names an existing
\* node T, T is idle and queued at the end of that step, and the context T
\* is executed with next contains the dispatched input
DispatchTargets(r) ==
  {FindNode(WfOf(r), eng[r].result.dispatch[i]) : i \in 1..Len(eng[r].result.dispatch)} \ {None}

CompletesWithDispatch(r) ==
  /\ eng[r].pc = "emit" /\ eng'[r].pc = "loop"
  /\ eng[r].result.success /\ eng[r].result.output /= <<>>
  /\ StepStatus(WfOf(r), eng[r].cur, eng[r].result) = "complete"

HoldsDispatchInput(r, n) == eng[r].outputs[n] = dispatch_input

C31_DispatchReachesTarget ==
  [][\A r \in Callers :
       /\ CompletesWithDispatch(r) =>
            \A t \in DispatchTargets(r) :
              nodes'[r][t].status = "idle" /\ InSeq(t, eng'[r].queue)
       /\ \A n \in DOMAIN nodes[r] :
            (Admits(r, n) /\ HoldsDispatchInput(r, n)) =>
              Contains(build_context(WfOf(r), eng[r].outputs, eng[r].completed, n),
                       dispatch_input)]_vars

\* C32: validate(allow_cycles=False) raises exactly when some node reaches
\* itself along non-feedback edges (a self-loop included); a cycle through a
\* feedback edge is accepted
ForwardTargets(g, v) ==
  {g.edges[i].target_id : i \in {j \in 1..Len(g.edges) :
       g.edges[j].source_id = v /\ ~g.edges[j].feedback}}

RECURSIVE Descendants(_, _, _)
Descendants(g, S, k) ==
  IF k = 0 THEN S
  ELSE Descendants(g, S \cup UNION {ForwardTargets(g, v) : v \in S}, k - 1)

HasForwardCycle(g) ==
  \E v \in SeqToSet(g.nodes) : v \in Descendants(g, ForwardTargets(g, v), Len(g.nodes))

C32_ValidateRaisesIffForwardCycle ==
  (call.op = "validate" /\ call.source = FALSE)
    => (call.raised <=> HasForwardCycle(graph))

\* validate accepted a workflow with a cycle through a feedback edge
C32_FeedbackCycleAccepted ==
  /\ call.op = "validate" /\ call.source = FALSE /\ ~call.raised
  /\ \E i, j \in 1..Len(graph.edges) :
       /\ graph.edges[i].source_id = graph.edges[j].target_id
       /\ graph.edges[i].target_id = graph.edges[j].source_id
       /\ graph.edges[i].source_id /= graph.edges[i].target_id
       /\ graph.edges[i].feedback /\ ~graph.edges[j].feedback

\* validate rejected a cycle over three nodes
C32_Witness ==
  /\ call.op = "validate" /\ call.source = FALSE /\ call.raised
  /\ Len(graph.edges) = 3
  /\ \A i, j \in 1..3 : i /= j => graph.edges[i].source_id /= graph.edges[j].source_id
  /\ \A i \in 1..3 : graph.edges[i].source_id /= graph.edges[i].target_id

\* C33: when the primary key of a call has an explicit fallback chain, every
\* key the call moves on to is the first entry of that chain that is
\* registered, available and not yet tried - after a fallback failed as well
MovesOn == Len(fo'.attempts) = Len(fo.attempts) + 1 /\ fo.attempts /= <<>>

C33_ChainOfPrimaryUsedVerbatim ==
  [][(MovesOn /\ fo.primary \in DOMAIN fallback_chains)
       => fo'.attempts[Len(fo'.attempts)]
            = next_fallback(providers', fallback_chains[fo.primary], fo.attempts, clock')]_vars

\* C34: a node is complete or waiting for approval only if its output meets
\* every required agreement rule of the node; a node whose output fails one
\* has none of its successors queued or executed
MeetsRules(r, n) == validate(nodes[r][n].output, RulesOf(WfOf(r), n))

C34_ValidationGatesCompletion ==
  \A r \in Callers : \A n \in DOMAIN nodes[r] :
    (nodes[r][n].output /= NoOutput /\ ~MeetsRules(r, n)) =>
      /\ nodes[r][n].status \notin {"complete", "waiting_for_approval"}
      /\ \A t \in SeqToSet(get_successors(WfOf(r), n)) :
           ~InSeq(t, eng[r].queue) /\ nodes[r][t].execs = 0

\* C35: a node with attached sub-workflows always finishes its step (success
\* or failure), also when the controller has a single slot
InSubStep(r) ==
  /\ eng[r].pc = "exec"
  /\ SubWorkflowsOf(WfOf(r), eng[r].cur) /= <<>>

NoDuplicates(q) == \A i, j \in 1..Len(q) : q[i] = q[j] => i = j

\* a node that enters the queue is not complete
QueuesOnlyOpenNodes ==
  \A r \in Callers : \A t \in DOMAIN nodes'[r] :
    (Started(r) /\ eng'[r].wf = eng[r].wf /\ NewlyQueued(r, t)) => nodes'[r][t].status /= "complete"

C36_QueueHasNoDuplicates ==
  /\ [](\A r \in Callers : NoDuplicates(eng[r].queue))
  /\ [][QueuesOnlyOpenNodes]_vars

\* the second predecessor of the join node completed while the join node was
\* queued already: routing met a queued target
C36_Witness ==
  /\ eng[1].wf = "join"
  /\ eng[1].pc = "loop"
  /\ {"a", "b"} \subseteq eng[1].completed
  /\ nodes[1]["a"].status = "complete" /\ nodes[1]["b"].status = "complete"
  /\ InSeq("g", eng[1].queue)

\* C37: permits taken = callers holding a slot + grants signalled and not
\* yet received, whenever no _process_next task is between its semaphore
\* and its ticket; and a _process_next task never waits for a ticket with a
\* permit in hand, so with every slot released and nothing left to run all
\* max_concurrency permits are free
PermitsTaken == max_concurrency - semValue
GrantsSignalled == Cardinality({i \in 1..Len(ready) : ready[i].k = "grant"})
InTransit == \E i \in 1..Len(ready) : ready[i].k \in {"pn_sem", "pn_get"}
AllReleased == Holders = {} /\ ready = <<>> /\ \A c \in Callers : cst[c] = "out"

C37_PermitConservation ==
  /\ getters = 0
  /\ ~InTransit => PermitsTaken = Cardinality(Holders) + GrantsSignalled
  /\ AllReleased => semValue = max_concurrency

\* C38: the key execute_with_failover returns is one the task was invoked on
\* in that call, and every key announced to on_failover was invoked
C38_FinalKeyWasInvoked ==
  fo.pc = "done" =>
    /\ InSeq(fo.ret.key, Invoked)
    /\ \A i \in 1..Len(fo.notes) : InSeq(fo.notes[i].new, Invoked)

\* C39: a node that replay_from leaves COMPLETE was complete when the
\* snapshot it restores was taken
ReplaysFrom(r, k) ==
  /\ Replays(r)
  /\ k \in 1..Len(eng[r].history)
  /\ eng'[r].outputs = PreloadOutputs(WfOf(r), nodes'[r])
  /\ \A n \in DOMAIN nodes[r] :
       nodes'[r][n].status = "complete" <=> eng[r].history[k].outputs[n] /= NoOutput

C39_ReplayRestoresCompletion ==
  [][\A r \in Callers : \A k \in 1..Len(eng[r].history) :
       ReplaysFrom(r, k) =>
         \A n \in DOMAIN nodes[r] :
           nodes'[r][n].status = "complete" => eng[r].status_then[k][n] = "complete"]_vars

\* C40: the task is never invoked on a registered key that is in cooldown,
\* whether the key is the primary of the call or a fallback
InCooldown(k) == k \in DOMAIN providers /\ clock < providers[k].cooldown_until

C40_NoInvocationInCooldown ==
  fo.pc = "try" => ~InCooldown(fo.attempts[Len(fo.attempts)])

====
